---------------------------- MODULE Spec2Model ----------------------------
(***************************************************************************)
(* Accessibility pipelines of the africa-rural-atlas repository.           *)
(*                                                                         *)
(* Road pipeline:                                                          *)
(*   rural_aggregate.py      writes result_<country>_detailed.csv          *)
(*   road_distance_country.py  reads them, writes road_distance_country    *)
(*   road_distance_region.py   rolls countries up into regions             *)
(* Share pipeline:                                                         *)
(*   generate_json_data.py   reads the same CSVs                           *)
(*   verify_shares.py        checks the shares of every country            *)
(*   region_aggregation.py   rolls countries up into regions               *)
(*                                                                         *)
(* Numbers.  pop_density is a float column: a population is held here as   *)
(* an integer count of 1/PopScale persons, a distance as an integer count  *)
(* of 1/DScale km, a share as an integer count of 1/ShareScale (the code   *)
(* rounds shares to 4 decimals).  JSON populations are whole persons.      *)
(***************************************************************************)
EXTENDS Integers, Sequences, FiniteSets, TLC

\* ------------------------------------------------------------ bounds
\* Rows over all the detailed CSV files of one run.
MaxRows == 2
\* Features in the facility file of one run.
MaxFeatures == 2

\* ------------------------------------------------------------ units
PopScale == 2
DScale == 100
CoordScale == 2
ShareScale == 10000

\* ------------------------------------------------------------ program constants
\* rural_threshold = 300 (persons per cell)
rural_threshold == 300
\* interval = 1.0 (km)
interval == 1
\* for distance in range(1, 101)
MaxThreshold == 100
\* abs(total_share - 1.0) > 0.001, in 1/ShareScale
ShareTolerance == 10

\* ------------------------------------------------------------ inputs
\* Cell populations (1/PopScale persons): 299.5, 300.0 and 300.5 persons.
Pops == {599, 600, 601}
\* Cell distances (1/DScale km): 0, 0.5, 1.0 and 1.5 km.
Dists == {0, 50, 100, 150}
\* Countries whose detailed CSV may exist: two members of one region and a
\* country that no region lists.
Candidates == {"Morocco", "Algeria", "Western Sahara"}

\* A row of result_all_countries_detailed.csv.
RowType == [country : Candidates, pop_density : Pops, distance : Dists]

\* ------------------------------------------------------------ arithmetic
\* The empty dictionary.
NoData == <<>>

RECURSIVE SumSeq(_)
SumSeq(s) == IF s = <<>> THEN 0 ELSE Head(s) + SumSeq(Tail(s))

RECURSIVE SumFun(_, _)
\* Sum of f[x] over the finite set S, a subset of DOMAIN f.
SumFun(f, S) ==
    IF S = {} THEN 0
    ELSE LET x == CHOOSE y \in S : TRUE IN f[x] + SumFun(f, S \ {x})

Abs(x) == IF x >= 0 THEN x ELSE -x

RECURSIVE SetToSeq(_)
\* The elements of a finite set, in some order.
SetToSeq(S) ==
    IF S = {} THEN <<>>
    ELSE LET x == CHOOSE y \in S : TRUE IN <<x>> \o SetToSeq(S \ {x})

MaxOf(S) == CHOOSE x \in S : \A y \in S : y <= x

\* Python int() of a float: truncation toward zero (x in 1/PopScale persons).
\* (variant: rounding up, math.ceil, instead of int)
IntOfCeil(x) == IF x >= 0 THEN (x + PopScale - 1) \div PopScale ELSE -((-x) \div PopScale)
IntOf(x) == IF x >= 0 THEN x \div PopScale ELSE -((-x) \div PopScale)

\* ---- binary64 arithmetic
\* A Python float is held exactly, as sign and magnitude: the magnitude is a
\* binary fixed-point number of IntBits bits before and FracBits bits after
\* the point, position 1 being the highest bit.  Every float the programs
\* below compute from shares is 0 or lies in [2^-15, 2^IntBits), so it has
\* its 53 significant bits inside this width.
Mantissa == 53
IntBits == 6
FracBits == 78
Width == IntBits + FracBits

Zeros(n) == [i \in 1..n |-> 0]
ZeroBits == Zeros(Width)

\* The highest set bit, 0 for zero.
Top(b) ==
    IF \A i \in 1..Width : b[i] = 0 THEN 0
    ELSE CHOOSE i \in 1..Width : b[i] = 1 /\ \A j \in 1..(i - 1) : b[j] = 0

\* Bits are added six at a time: chunk c is the positions 6c-5..6c.
ChunkBits == 6
Chunks == Width \div ChunkBits

Chunk(a, c) ==
    LET o == ChunkBits * (c - 1)
    IN  32 * a[o + 1] + 16 * a[o + 2] + 8 * a[o + 3] + 4 * a[o + 4] + 2 * a[o + 5] + a[o + 6]

BitsOfChunk(v) == [j \in 1..ChunkBits |-> (v \div 2 ^ (ChunkBits - j)) % 2]

RECURSIVE AddFrom(_, _, _)
\* Chunks c..Chunks of a + b, and the carry out of chunk c.
AddFrom(a, b, c) ==
    IF c > Chunks THEN [carry |-> 0, bits |-> <<>>]
    ELSE LET low == AddFrom(a, b, c + 1)
             t == Chunk(a, c) + Chunk(b, c) + low.carry
         IN  [carry |-> t \div 2 ^ ChunkBits,
              bits |-> BitsOfChunk(t % 2 ^ ChunkBits) \o low.bits]

AddBits(a, b) == AddFrom(a, b, 1).bits

RECURSIVE SubFrom(_, _, _)
\* Chunks c..Chunks of a - b, and the borrow out of chunk c.
SubFrom(a, b, c) ==
    IF c > Chunks THEN [borrow |-> 0, bits |-> <<>>]
    ELSE LET low == SubFrom(a, b, c + 1)
             t == Chunk(a, c) - Chunk(b, c) - low.borrow
         IN  [borrow |-> IF t < 0 THEN 1 ELSE 0,
              bits |-> BitsOfChunk((t + 2 ^ ChunkBits) % 2 ^ ChunkBits) \o low.bits]

\* a - b for a >= b.
SubBits(a, b) == SubFrom(a, b, 1).bits

LessBits(a, b) ==
    \E i \in 1..Width : a[i] < b[i] /\ \A j \in 1..(i - 1) : a[j] = b[j]

\* Round to nearest, ties to even, at 53 significant bits; sticky tells that
\* the exact value has non-zero bits beyond the width.
Round53(b, sticky) ==
    LET top == Top(b)
        last == top + Mantissa - 1
    IN  IF top = 0 \/ last >= Width THEN b
        ELSE LET guard == b[last + 1]
                 rest == sticky \/ \E i \in (last + 2)..Width : b[i] = 1
                 kept == SubSeq(b, 1, last) \o Zeros(Width - last)
                 unit == Zeros(last - 1) \o <<1>> \o Zeros(Width - last)
             IN  IF guard = 1 /\ (rest \/ b[last] = 1) THEN AddBits(kept, unit)
                 ELSE kept

RECURSIVE Fraction(_, _, _)
\* k more chunks of the long division that has the remainder r, and the
\* remainder it leaves (d < 2^25).
Fraction(r, d, k) ==
    IF k = 0 THEN [bits |-> <<>>, r |-> r]
    ELSE LET shifted == r * 2 ^ ChunkBits
             low == Fraction(shifted % d, d, k - 1)
         IN  [bits |-> BitsOfChunk(shifted \div d) \o low.bits, r |-> low.r]

\* The binary expansion of n / d by long division (n >= 0, d > 0), cut after
\* FracBits bits, and whether a remainder is left.
QuotientBits(n, d) ==
    LET fraction == Fraction(n % d, d, FracBits \div ChunkBits)
    IN  [bits |-> BitsOfChunk(n \div d) \o fraction.bits,
         sticky |-> fraction.r # 0]

\* The float n / d (the division of two floats that hold n and d exactly),
\* and the float of the decimal literal n/d.
Float(n, d) ==
    [neg |-> n < 0,
     m |-> LET q == QuotientBits(IF n < 0 THEN -n ELSE n, d)
           IN  Round53(q.bits, q.sticky)]

FloatNeg(x) == [neg |-> x.m # ZeroBits /\ ~x.neg, m |-> x.m]
FloatAbs(x) == [neg |-> FALSE, m |-> x.m]

\* x + y in float arithmetic.
FloatAdd(x, y) ==
    IF x.neg = y.neg THEN [neg |-> x.neg, m |-> Round53(AddBits(x.m, y.m), FALSE)]
    ELSE IF x.m = y.m THEN [neg |-> FALSE, m |-> ZeroBits]
    ELSE IF LessBits(x.m, y.m)
    THEN [neg |-> y.neg, m |-> Round53(SubBits(y.m, x.m), FALSE)]
    ELSE [neg |-> x.neg, m |-> Round53(SubBits(x.m, y.m), FALSE)]

\* x > y for floats.
FloatGreater(x, y) ==
    IF x.neg /\ y.neg THEN LessBits(x.m, y.m)
    ELSE IF x.neg THEN FALSE
    ELSE IF y.neg THEN TRUE
    ELSE LessBits(y.m, x.m)

\* Python round(n / d, 4) for n >= 0, d > 0, in 1/ShareScale.  round() gives
\* the multiple of 0.0001 nearest to the float n / d, ties to even.  The float
\* is within 2^-53 of the quotient, so it is on the quotient's side of every
\* tie unless the quotient is a tie itself; then the float's own rounding
\* decides, and only a tie the float holds exactly goes to even.
RoundQuotient(n, d) ==
    LET num == n * ShareScale
        q == num \div d
        r == num % d
    IN  IF 2 * r < d THEN q
        ELSE IF 2 * r > d THEN q + 1
        ELSE LET exact == QuotientBits(n, d)
                 x == Round53(exact.bits, exact.sticky)
             IN  IF LessBits(exact.bits, x) THEN q + 1
                 ELSE IF exact.sticky \/ LessBits(x, exact.bits) THEN q
                 ELSE IF q % 2 = 0 THEN q ELSE q + 1

\* round(urban_pop / total_population, 4) of a numpy.float64, for d > 0, in
\* 1/ShareScale: numpy multiplies the float n / d by 10**4, takes rint (ties to
\* even) and divides by 10**4.  The product is within 2^-39 of the quotient
\* times 10**4, so rint goes to the quotient's side of every tie unless the
\* quotient is a tie itself; then the float product decides: it is computed
\* here scaled by 2^-14 (10**4 / 2^14 = 2^-1 + 2^-4 + 2^-5 + 2^-6 + 2^-10) and
\* compared with the tie (2q + 1) / 2^15.
RoundShare(n, d) ==
    LET a == IF n < 0 THEN -n ELSE n
        num == a * ShareScale
        q == num \div d
        r == num % d
        Shift(b, k) == Zeros(k) \o SubSeq(b, 1, Width - k)
        x == Float(a, d).m
        product == Round53(AddBits(AddBits(AddBits(AddBits(Shift(x, 1), Shift(x, 4)),
                                                   Shift(x, 5)), Shift(x, 6)),
                                   Shift(x, 10)), FALSE)
        tie == QuotientBits(2 * q + 1, 32768).bits
        rint == IF 2 * r < d THEN q
                ELSE IF 2 * r > d THEN q + 1
                ELSE IF LessBits(product, tie) THEN q
                ELSE IF LessBits(tie, product) THEN q + 1
                ELSE IF q % 2 = 0 THEN q ELSE q + 1
    IN  IF n < 0 THEN -rint ELSE rint

\* len(np.arange(0, stop, step)) for stop > 0, step > 0: ceil(stop / step).
ArangeLen(stop, step) == (stop + step - 1) \div step

\* ------------------------------------------------------------ state
VARIABLES
    pc,                  \* which program of the pipeline runs next
    csv_files,           \* result_<country>_detailed.csv: country -> rows
    country_files,       \* files the main loop has still to visit
    all_countries_data,  \* road_distance_country.json / ..._fixed.json as built by main
    issues_found,        \* verify_shares: countries whose shares do not sum to 1
    region_data,         \* the region JSON written by aggregate_by_regions
    unmapped_countries,  \* printed: in data but in no region
    missing_countries,   \* printed: region members not in data
    warned_regions,      \* printed: "Warning: No countries found for <region>"
    population_raster,   \* PharmacyAccessibilityAnalyzer.population_raster
    transform,           \* .transform: the affine transform of the population file
    pharmacy_points,     \* .pharmacy_points: the features of the GeoJSON file
    pharmacy_raster,     \* .pharmacy_raster: 1 where a facility was marked
    distance_raster,     \* .distance_raster, as squared distances
    results,             \* .results: the cell records
    final_results,       \* what run_analysis returns, with the detailed statistics
    tif_result,          \* process_aggregated_tif: the result written as JSON
    population_data,     \* FacilityUrbanRuralAnalyzer: population_data and transform
    lookup,              \* a call of get_population_at_location and what it returned
    tif_files,           \* rural_aggregate: the country files still to visit
    current,             \* rural_aggregate: the country file loaded in this pass
    road_mask,           \* rural_aggregate: road_mask of this pass
    road_distance,       \* rural_aggregate: distance_raster of this pass
    all_detailed_results,\* rural_aggregate: country -> rows of df_detailed
    appended,            \* rural_aggregate: the countries of the frames, as appended
    printed,             \* country -> the message that ends its pass of a loop
    country_boundaries,  \* country_population_analysis: name -> loaded boundary
    all_results,         \* country_population_analysis: the results appended
    total_population_stats, \* country_population_analysis: the totals
    classified,          \* classify_distance: the records labelled so far
    src_data,            \* aggregate_100x100: band 1 of the source raster
    out_bands,           \* aggregate_100x100: the four bands written
    download             \* getdata_json: the state of download_country_data

roadVars == <<csv_files, country_files, all_countries_data, issues_found,
              region_data, unmapped_countries, missing_countries, warned_regions>>

pharmacyVars == <<population_raster, transform, pharmacy_points, pharmacy_raster,
                  distance_raster, results, final_results>>

loopVars == <<tif_files, current, road_mask, road_distance, all_detailed_results,
              appended, printed>>

populationVars == <<country_boundaries, all_results, total_population_stats>>

utilityVars == <<classified, src_data, out_bands, download>>

toolVars == <<tif_result, population_data, lookup, loopVars, populationVars,
              utilityVars>>

vars == <<pc, roadVars, pharmacyVars, toolVars>>

\* ------------------------------------------------------------ country level
\* Rows of a pop_density column selected by the urban / rural mask.
IsUrban(r) == r.pop_density >= rural_threshold * PopScale
IsRural(r) == r.pop_density < rural_threshold * PopScale

PopColumn(rows) == [i \in 1..Len(rows) |-> rows[i].pop_density]

\* classify_urban_rural(population_data, rural_threshold) -> <<urban_pop, rural_pop>>
classify_urban_rural(rows) ==
    <<SumSeq(PopColumn(SelectSeq(rows, IsUrban))),
      SumSeq(PopColumn(SelectSeq(rows, IsRural)))>>

\* np.arange(0, max_distance + interval, interval), in 1/DScale km.
distance_bins(max_distance) ==
    [i \in 1..ArangeLen(max_distance + interval * DScale, interval * DScale)
        |-> (i - 1) * interval * DScale]

\* df[(df['distance'] >= bin_start) & (df['distance'] < bin_end)]
BinData(rows, bin_start, bin_end) ==
    SelectSeq(rows, LAMBDA r : r.distance >= bin_start /\ r.distance < bin_end)

\* interval_key = str(int(bin_end)): the whole kilometres of bin_end.
IntervalKey(bin_end) == bin_end \div DScale

\* One entry of country_data["distance_intervals"].
IntervalEntry(bin_data, total_population) ==
    LET bin_population == SumSeq(PopColumn(bin_data))
        cls == classify_urban_rural(bin_data)
        urban_pop == cls[1]
        rural_pop == cls[2]
    IN  [urban_population |-> IntOf(urban_pop),
         rural_population |-> IntOf(rural_pop),
         urban_share_of_total_population |->
             IF total_population > 0 THEN RoundShare(urban_pop, total_population) ELSE 0,
         rural_share_of_total_population |->
             IF total_population > 0 THEN RoundShare(rural_pop, total_population) ELSE 0,
         total_population_in_range |-> IntOf(bin_population)]

\* The distance_intervals dictionary both process_country_data functions build:
\* one entry per non-empty bin, a later bin overwriting an equal key.
distance_intervals(rows) ==
    LET total_population == SumSeq(PopColumn(rows))
        max_distance == MaxOf({rows[i].distance : i \in 1..Len(rows)})
        bins == distance_bins(max_distance)
        Data(i) == BinData(rows, bins[i], bins[i + 1])
        filled == {i \in 1..(Len(bins) - 1) : Len(Data(i)) > 0}
        keys == {IntervalKey(bins[i + 1]) : i \in filled}
        Last(k) == MaxOf({i \in filled : IntervalKey(bins[i + 1]) = k})
    IN  [k \in keys |-> IntervalEntry(Data(Last(k)), total_population)]

\* df['country'].iloc[0] raises IndexError on a file without rows.
Raises(rows) == Len(rows) = 0

\* road_distance_country.process_country_data(csv_file, 1.0, 300)
process_country_data(rows) ==
    [population |-> IntOf(SumSeq(PopColumn(rows))),
     urban_population |-> IntOf(SumSeq(PopColumn(SelectSeq(rows, IsUrban)))),
     rural_population |-> IntOf(SumSeq(PopColumn(SelectSeq(rows, IsRural)))),
     distance_intervals |-> distance_intervals(rows)]

\* generate_json_data.process_country_data(csv_file, 1.0, 300)
process_country_data_json(rows) ==
    [population |-> IntOf(SumSeq(PopColumn(rows))),
     distance_intervals |-> distance_intervals(rows)]

\* ------------------------------------------------------------ region level
\* regions_def of road_distance_region.py, in dictionary order.  The name
\* written here "Cote d'Ivoire" stands for the source's accented spelling.
RegionOrder ==
    <<"North Africa", "West Africa", "Central Africa", "East Africa", "Southern Africa">>

regions_def ==
    [region \in {RegionOrder[i] : i \in 1..Len(RegionOrder)} |->
        CASE region = "North Africa" ->
               <<"Morocco", "Algeria", "Tunisia", "Libya", "Egypt", "Mauritius">>
          [] region = "West Africa" ->
               <<"Senegal", "Gambia", "Guinea-Bissau", "Guinea", "Sierra Leone",
                 "Liberia", "Cote d'Ivoire", "Ghana", "Togo", "Benin", "Nigeria",
                 "Niger", "Burkina Faso", "Mali", "Mauritania", "Cabo Verde">>
          [] region = "Central Africa" ->
               <<"Chad", "Central African Republic", "Cameroon", "Gabon",
                 "Congo", "Democratic Republic of the Congo", "Equatorial Guinea",
                 "Sao Tome and Principe", "Burundi">>
          [] region = "East Africa" ->
               <<"Ethiopia", "Eritrea", "Djibouti", "Somalia", "Kenya",
                 "Uganda", "Tanzania", "Rwanda", "South Sudan", "Sudan">>
          [] region = "Southern Africa" ->
               <<"South Africa", "Namibia", "Botswana", "Zimbabwe",
                 "Zambia", "Malawi", "Mozambique", "Angola", "Lesotho",
                 "Madagascar", "Comoros", "Swaziland", "Seychelles">>]

\* regions_def of region_aggregation.py: the same, but for the seventh name of
\* West Africa, whose bytes in that file are a doubly encoded spelling.
regions_def_json ==
    [regions_def EXCEPT !["West Africa"][7] = "CAA'te d'Ivoire (doubly encoded)"]

Range(s) == {s[i] : i \in 1..Len(s)}

\* mapped_countries = set(country_to_region.keys())
mapped_countries(defs) == UNION {Range(defs[region]) : region \in DOMAIN defs}

\* unmapped_countries = available_countries_set - mapped_countries
Unmapped(data, defs) == (DOMAIN data) \ mapped_countries(defs)

\* missing_countries = mapped_countries - available_countries_set
\* (variant: the difference taken the other way round)
MissingSwapped(data, defs) == (DOMAIN data) \ mapped_countries(defs)
Missing(data, defs) == mapped_countries(defs) \ (DOMAIN data)

\* region_countries = [c for c in countries if c in available_countries]
\* (variant: every available country, whatever the region lists)
region_countries_all(data, defs, region) == SetToSeq(DOMAIN data)
region_countries(data, defs, region) ==
    SelectSeq(defs[region], LAMBDA c : c \in DOMAIN data)

\* The regions the loop leaves with "continue": no member is in the data.
SkippedRegions(data, defs) ==
    {region \in DOMAIN defs : region_countries(data, defs, region) = <<>>}

\* Sum over the countries of a region of a per-country number.
SumCountries(countries, value) ==
    SumSeq([i \in 1..Len(countries) |-> value[countries[i]]])

\* for d in range(1, distance + 1): if str(d) in intervals: total += intervals[str(d)][field]
\* (variant: only the interval "<distance>" itself, not the intervals up to it)
UpToOnlyLast(data, countries, distance, field) ==
    SumCountries(countries,
        [c \in Range(countries) |->
            LET intervals == data[c].distance_intervals
                present == {distance} \cap DOMAIN intervals
            IN  SumFun([d \in present |-> intervals[d][field]], present)])
UpTo(data, countries, distance, field) ==
    SumCountries(countries,
        [c \in Range(countries) |->
            LET intervals == data[c].distance_intervals
                present == (1..distance) \cap DOMAIN intervals
            IN  SumFun([d \in present |-> intervals[d][field]], present)])

\* region_population += country_data[field], when the country data has the field.
RegionSum(data, countries, field) ==
    SumCountries(countries,
        [c \in Range(countries) |->
            IF field \in DOMAIN data[c] THEN data[c][field] ELSE 0])

\* round(share, 4) of a Python float: the totals are the integers of the
\* JSON file, so the share is a float and round is Python's own.
Share(n, d) ==
    IF d <= 0 THEN 0
    ELSE IF n < 0 THEN -RoundQuotient(-n, d)
    ELSE RoundQuotient(n, d)

\* road_distance_region.py: region_distance_data["<=<distance>km population"]
RegionEntry(data, countries, distance) ==
    LET region_population == RegionSum(data, countries, "population")
        region_urban_population == RegionSum(data, countries, "urban_population")
        region_rural_population == RegionSum(data, countries, "rural_population")
        rural_total == UpTo(data, countries, distance, "rural_population")
        urban_total == UpTo(data, countries, distance, "urban_population")
        total_with_access == rural_total + urban_total
        total_no_access == region_population - total_with_access
        rural_no_access == region_rural_population - rural_total
        urban_no_access == region_urban_population - urban_total
    IN  [rural |-> rural_total,
         urban |-> urban_total,
         total_with_access |-> total_with_access,
         total_no_access |-> total_no_access,
         rural_no_access |-> rural_no_access,
         urban_no_access |-> urban_no_access,
         share_rural |-> Share(rural_total, region_population),
         share_urban |-> Share(urban_total, region_population),
         share_rural_no_access |-> Share(rural_no_access, region_population),
         share_urban_no_access |-> Share(urban_no_access, region_population),
         share_total_with_access |-> Share(total_with_access, region_population),
         share_total_no_access |-> Share(total_no_access, region_population)]

\* road_distance_region.aggregate_by_regions: the region_data it writes.
aggregate_by_regions(data) ==
    [region \in (DOMAIN regions_def) \ SkippedRegions(data, regions_def) |->
        LET countries == region_countries(data, regions_def, region)
        IN  [total_population |-> RegionSum(data, countries, "population"),
             urban_population |-> RegionSum(data, countries, "urban_population"),
             rural_population |-> RegionSum(data, countries, "rural_population"),
             table |-> [distance \in 1..MaxThreshold |->
                            RegionEntry(data, countries, distance)]]]

\* region_aggregation.py: region_distance_data["<=<distance>km population"].
\* region_population is summed when distance == 1, before the first share.
RegionEntryJson(data, countries, distance) ==
    LET region_population == RegionSum(data, countries, "population")
        rural_total == UpTo(data, countries, distance, "rural_population")
        urban_total == UpTo(data, countries, distance, "urban_population")
        total_with_access == rural_total + urban_total
        total_no_access == region_population - total_with_access
    IN  [rural |-> rural_total,
         urban |-> urban_total,
         total_with_access |-> total_with_access,
         total_no_access |-> total_no_access,
         share_rural |-> Share(rural_total, region_population),
         share_urban |-> Share(urban_total, region_population),
         share_total_with_access |-> Share(total_with_access, region_population),
         share_total_no_access |-> Share(total_no_access, region_population)]

\* region_aggregation.aggregate_by_regions: the region_data it writes.
region_aggregation(data) ==
    [region \in (DOMAIN regions_def_json) \ SkippedRegions(data, regions_def_json) |->
        LET countries == region_countries(data, regions_def_json, region)
        IN  [total_population |-> RegionSum(data, countries, "population"),
             table |-> [distance \in 1..MaxThreshold |->
                            RegionEntryJson(data, countries, distance)]]]

\* ------------------------------------------------------------ verify_shares
\* A share of the JSON file as the float json.load gives.
ShareFloat(share) == Float(share, ShareScale)

RECURSIVE SumShares(_, _, _)
\* total += interval_data[field] over the intervals, in the order of the
\* dictionary (the increasing bins), starting from the integer 0.
SumShares(intervals, keys, field) ==
    IF keys = {} THEN Float(0, 1)
    ELSE LET k == MaxOf(keys)
         IN  FloatAdd(SumShares(intervals, keys \ {k}, field),
                      ShareFloat(intervals[k][field]))

\* total_urban_share + total_rural_share over the intervals of one country.
total_share(country_data) ==
    LET intervals == country_data.distance_intervals
        keys == DOMAIN intervals
    IN  FloatAdd(SumShares(intervals, keys, "urban_share_of_total_population"),
                 SumShares(intervals, keys, "rural_share_of_total_population"))

\* The countries verify_shares appends to issues_found:
\* abs(total_share - 1.0) > 0.001 in float arithmetic.
verify_shares(data) ==
    {country \in DOMAIN data :
        FloatGreater(FloatAbs(FloatAdd(total_share(data[country]), FloatNeg(Float(1, 1)))),
                     Float(ShareTolerance, ShareScale))}

\* ------------------------------------------------------------ facility pipeline
\* pharmacy_accessibility_analysis.py and generate_detailed_analysis.py.
\*
\* A raster value is a float: [nan |-> TRUE, v |-> 0] is NaN, the rest are
\* numbers in 1/PopScale persons.  Comparisons with NaN are false, NaN != 0 is
\* true, and arithmetic on NaN gives NaN.
NaN == [nan |-> TRUE, v |-> 0]
Num(n) == [nan |-> FALSE, v |-> n]
NotZero(x) == x.nan \/ x.v # 0
Positive(x) == ~x.nan /\ x.v > 0
Negative(x) == ~x.nan /\ x.v < 0
AbsValue(x) == IF x.nan THEN NaN ELSE Num(Abs(x.v))
AddValue(x, y) == IF x.nan \/ y.nan THEN NaN ELSE Num(x.v + y.v)

\* A raster of the given shape; cells are <<row, col>>, counted from 0.
Cells(height, width) == (0..(height - 1)) \X (0..(width - 1))
Raster(height, width, data) == [height |-> height, width |-> width, data |-> data]
NoRaster == Raster(0, 0, <<>>)

\* The cells of a raster in the order of "for row ...: for col ...:".
RowMajor(height, width) ==
    [k \in 1..(height * width) |-> <<(k - 1) \div width, (k - 1) % width>>]

\* An affine transform without rotation: the upper left corner <<x0, y0>> of
\* the raster and the cell sizes sx (along x) and sy (along y, downwards).
\* Coordinates and cell sizes are in 1/CoordScale km, in the CRS of the raster.
Affine(x0, y0, sx, sy) == [x0 |-> x0, y0 |-> y0, sx |-> sx, sy |-> sy]
NoTransform == Affine(0, 0, 0, 0)

\* rasterio.transform.rowcol(transform, x, y): the cell containing <<x, y>>,
\* rounded with math.floor.
rowcol(t, x, y) == <<(t.y0 - y) \div t.sy, (x - t.x0) \div t.sx>>

\* rasterio.transform.xy(transform, rows, cols): the centre of cell
\* <<rows, cols>> (offset='center'); cell sizes are even.
xy(t, rows, cols) ==
    <<t.x0 + ((2 * cols + 1) * t.sx) \div 2, t.y0 - ((2 * rows + 1) * t.sy) \div 2>>

\* A feature of the GeoJSON file: its geometry type and its coordinates as
\* transformer.transform yields them in the CRS of the raster (the transformer
\* is linear here).  A Point has one vertex <<x, y>>, a LineString and a
\* MultiPoint their vertices in order, a Polygon the vertices of its exterior
\* ring (it has no hole and its area is not zero), a MultiPolygon the rings of
\* its parts, a MultiLineString the vertex lists of its parts.
Feature(geom_type, coords) == [geom_type |-> geom_type, coords |-> coords]

\* A coordinate pair with the common denominator den > 0: <<x / den, y / den>>.
Rational(x, y, den) ==
    IF den < 0 THEN [x |-> -x, y |-> -y, den |-> -den] ELSE [x |-> x, y |-> y, den |-> den]

\* geometry.centroid of a Polygon or MultiPolygon, given the rings of its
\* parts: the centroid of the area, each part weighted by its area.  For a
\* ring the sums over its edges of x[i] * y[i+1] - x[i+1] * y[i] give twice
\* the signed area and, weighted by x[i] + x[i+1], six times area times
\* centroid.
centroid(rings) ==
    LET After(ring, i) == ring[(i % Len(ring)) + 1]
        Cross(ring, i) ==
            ring[i][1] * After(ring, i)[2] - After(ring, i)[1] * ring[i][2]
        Area2(ring) == SumSeq([i \in 1..Len(ring) |-> Cross(ring, i)])
        Moment(ring, k) ==
            SumSeq([i \in 1..Len(ring) |-> (ring[i][k] + After(ring, i)[k]) * Cross(ring, i)])
        Sign(ring) == IF Area2(ring) < 0 THEN -1 ELSE 1
        Total(k) == SumSeq([p \in 1..Len(rings) |-> Sign(rings[p]) * Moment(rings[p], k)])
    IN  Rational(Total(1), Total(2),
                 3 * SumSeq([p \in 1..Len(rings) |-> Sign(rings[p]) * Area2(rings[p])]))

\* geometry.representative_point() of a MultiPoint: the first of the points
\* nearest to the mean of the points.
representative_point(coords) ==
    LET n == Len(coords)
        Off(i, k) == n * coords[i][k] - SumSeq([j \in 1..n |-> coords[j][k]])
        D(i) == Off(i, 1) * Off(i, 1) + Off(i, 2) * Off(i, 2)
        best == CHOOSE i \in 1..n : \A j \in 1..n : D(i) < D(j) \/ (D(i) = D(j) /\ i <= j)
    IN  Rational(coords[best][1], coords[best][2], 1)

\* point.geometry.coords raises NotImplementedError for a multi-part geometry;
\* the except branch counts an error and the feature marks no cell.
FeatureRaises(point) == point.geom_type = "MultiLineString"

\* create_pharmacy_raster: the coordinate taken for a feature that does not
\* raise.
FeaturePoint(point) ==
    IF point.geom_type = "Point" THEN Rational(point.coords[1][1], point.coords[1][2], 1)
    ELSE IF point.geom_type = "Polygon" THEN centroid(<<point.coords>>)
    ELSE IF point.geom_type = "MultiPolygon" THEN centroid(point.coords)
    ELSE IF point.geom_type = "LineString"
    THEN Rational(point.coords[1][1], point.coords[1][2], 1)
    ELSE representative_point(point.coords)

\* create_pharmacy_raster: the raster index <<row, col>> of a feature.
FeatureCell(t, point) ==
    LET p == FeaturePoint(point)
    IN  rowcol(Affine(t.x0 * p.den, t.y0 * p.den, t.sx * p.den, t.sy * p.den), p.x, p.y)

\* The features of the file whose pass of the loop reaches the bounds test.
Located(points) == {j \in 1..Len(points) : ~FeatureRaises(points[j])}

\* create_pharmacy_raster: pharmacy_raster[row, col] += 1 for every feature
\* (variant: a count of the features per cell)
create_pharmacy_raster_count(population, t, points) ==
    LET height == population.height
        width == population.width
    IN  Raster(height, width,
               [cell \in Cells(height, width) |->
                   Cardinality({i \in Located(points) : FeatureCell(t, points[i]) = cell})])

\* create_pharmacy_raster without the bounds test
\* (variant: a negative index counts from the end, as numpy indexing does)
create_pharmacy_raster_wrap(population, t, points) ==
    LET height == population.height
        width == population.width
        Wrap(k, n) == IF k < 0 THEN k + n ELSE k
        Index(pt) == <<Wrap(pt[1], height), Wrap(pt[2], width)>>
        InBounds(pt) == 0 <= pt[1] /\ pt[1] < height /\ 0 <= pt[2] /\ pt[2] < width
        marked == {Index(FeatureCell(t, points[i])) :
                      i \in {j \in Located(points) : InBounds(Index(FeatureCell(t, points[j])))}}
    IN  Raster(height, width,
               [cell \in Cells(height, width) |-> IF cell \in marked THEN 1 ELSE 0])

\* create_pharmacy_raster: the raster with 1 in every cell a feature falls in.
create_pharmacy_raster(population, t, points) ==
    LET height == population.height
        width == population.width
        InBounds(pt) == 0 <= pt[1] /\ pt[1] < height /\ 0 <= pt[2] /\ pt[2] < width
        marked == {FeatureCell(t, points[i]) :
                      i \in {j \in Located(points) : InBounds(FeatureCell(t, points[j]))}}
    IN  Raster(height, width,
               [cell \in Cells(height, width) |-> IF cell \in marked THEN 1 ELSE 0])

\* Squared Euclidean distance between two cells, in cells.
SquaredDistance(a, b) == (a[1] - b[1]) * (a[1] - b[1]) + (a[2] - b[2]) * (a[2] - b[2])

MinOf(S) == CHOOSE x \in S : \A y \in S : x <= y

\* calculate_distances: distance_transform_edt(~pharmacy_raster.astype(bool)) * 1.0,
\* held as the squared distance.  With no marked cell scipy's feature transform
\* sets the first feature index to -1 and leaves the second at 0, so the
\* distance is (row + 1, col): the one to <<-1, 0>> along each axis.
calculate_distances(pharmacy) ==
    LET cells == Cells(pharmacy.height, pharmacy.width)
        marked == {cell \in cells : pharmacy.data[cell] = 1}
    IN  Raster(pharmacy.height, pharmacy.width,
               [cell \in cells |->
                   IF marked = {}
                   THEN SquaredDistance(cell, <<-1, 0>>)
                   ELSE MinOf({SquaredDistance(cell, m) : m \in marked})])

\* distance <= threshold, on the squared distance.
Within(distance, threshold) == distance <= threshold * threshold

\* classify_distance(distance)
\* (variants: without the band above 100 km; bands closed below and open
\* above, "distance < 1", ...)
classify_distance_capped(distance) ==
    IF distance <= 1 THEN "0-1km"
    ELSE IF distance <= 4 THEN "1-2km"
    ELSE IF distance <= 25 THEN "2-5km"
    ELSE IF distance <= 100 THEN "5-10km"
    ELSE IF distance <= 400 THEN "10-20km"
    ELSE IF distance <= 2500 THEN "20-50km"
    ELSE "50-100km"
classify_distance_strict(distance) ==
    IF distance < 1 THEN "0-1km"
    ELSE IF distance < 4 THEN "1-2km"
    ELSE IF distance < 25 THEN "2-5km"
    ELSE IF distance < 100 THEN "5-10km"
    ELSE IF distance < 400 THEN "10-20km"
    ELSE IF distance < 2500 THEN "20-50km"
    ELSE IF distance < 10000 THEN "50-100km"
    ELSE ">100km"
classify_distance(distance) ==
    IF Within(distance, 1) THEN "0-1km"
    ELSE IF Within(distance, 2) THEN "1-2km"
    ELSE IF Within(distance, 5) THEN "2-5km"
    ELSE IF Within(distance, 10) THEN "5-10km"
    ELSE IF Within(distance, 20) THEN "10-20km"
    ELSE IF Within(distance, 50) THEN "20-50km"
    ELSE IF Within(distance, 100) THEN "50-100km"
    ELSE ">100km"

\* grid_type = "urban" if population > 0 else "rural"
GridType(population) == IF Positive(population) THEN "urban" ELSE "rural"

\* if population != 0: the cells analyze_grid_level makes a record of.
Analyzed(population) == NotZero(population)

\* analyze_grid_level: self.results
analyze_grid_level(population, distance, pharmacy) ==
    LET order == RowMajor(population.height, population.width)
        kept == SelectSeq(order, LAMBDA cell : Analyzed(population.data[cell]))
    IN  [i \in 1..Len(kept) |->
            LET cell == kept[i]
                value == population.data[cell]
            IN  [row |-> cell[1],
                 col |-> cell[2],
                 population |-> AbsValue(value),
                 population_original |-> value,
                 type |-> GridType(value),
                 distance |-> distance.data[cell],
                 distance_category |-> classify_distance(distance.data[cell]),
                 facilities_count |-> pharmacy.data[cell]]]

\* sum([r["population"] for r in records]) over records whose population is a number.
SumPopulation(records) == SumSeq([i \in 1..Len(records) |-> records[i].population.v])

IsUrbanRecord(r) == Positive(r.population_original)
IsRuralRecord(r) == Negative(r.population_original)

\* r["distance"] <= threshold
Reaches(r, threshold) == Within(r.distance, threshold)

distance_thresholds == <<1, 2, 5, 10, 20, 50, 100>>

\* aggregate_by_distance: distance_stats
aggregate_by_distance(records) ==
    [threshold \in Range(distance_thresholds) |->
        LET urban_pop == SumPopulation(SelectSeq(records,
                LAMBDA r : IsUrbanRecord(r) /\ Reaches(r, threshold)))
            rural_pop == SumPopulation(SelectSeq(records,
                LAMBDA r : IsRuralRecord(r) /\ Reaches(r, threshold)))
        IN  [urban |-> IntOf(urban_pop),
             rural |-> IntOf(rural_pop),
             total |-> IntOf(urban_pop + rural_pop)]]

\* n / d * 100 if d > 0 else 0, as a fraction.
Percent(n, d) == IF d > 0 THEN [num |-> n * 100, den |-> d] ELSE [num |-> 0, den |-> 1]

\* analyze_urban_rural_gap: {} when a class has no record.  The weighted
\* average distances are irrational numbers and are not carried.
analyze_urban_rural_gap(records) ==
    LET urban_data == SelectSeq(records, IsUrbanRecord)
        rural_data == SelectSeq(records, IsRuralRecord)
        Coverage(data, threshold) ==
            SumPopulation(SelectSeq(data, LAMBDA r : Reaches(r, threshold)))
        total_urban == SumPopulation(urban_data)
        total_rural == SumPopulation(rural_data)
        Gap(threshold) ==
            [urban_coverage |-> Percent(Coverage(urban_data, threshold), total_urban),
             rural_coverage |-> Percent(Coverage(rural_data, threshold), total_rural)]
    IN  IF urban_data = <<>> \/ rural_data = <<>>
        THEN NoData
        ELSE [coverage_gap |-> [km1 |-> Gap(1), km5 |-> Gap(5)],
              population_totals |-> [urban |-> IntOf(total_urban),
                                     rural |-> IntOf(total_rural),
                                     total |-> IntOf(total_urban + total_rural)]]

\* generate_detailed_analysis: distance_categories
distance_categories(records) ==
    [category \in {records[i].distance_category : i \in 1..Len(records)} |->
        LET members == SelectSeq(records, LAMBDA r : r.distance_category = category)
            population == [i \in 1..Len(members) |-> members[i].population]
            Total[i \in 0..Len(members)] ==
                IF i = 0 THEN Num(0) ELSE AddValue(Total[i - 1], population[i])
        IN  [count |-> Len(members),
             population |-> Total[Len(members)],
             urban_count |-> Len(SelectSeq(members, IsUrbanRecord)),
             rural_count |-> Len(members) - Len(SelectSeq(members, IsUrbanRecord))]]

\* generate_detailed_analysis: population_stats, the totals.
population_stats(records) ==
    LET Known(r) == ~r.population.nan
    IN  [overall |-> IntOf(SumPopulation(SelectSeq(records, Known))),
         urban |-> IntOf(SumPopulation(SelectSeq(records,
                       LAMBDA r : IsUrbanRecord(r) /\ Known(r)))),
         rural |-> IntOf(SumPopulation(SelectSeq(records,
                       LAMBDA r : IsRuralRecord(r) /\ Known(r))))]

\* np.min(distances) and np.max(populations) raise ValueError on an empty list.
DetailedRaises(records) ==
    \/ records = <<>>
    \/ SelectSeq(records, LAMBDA r : ~r.population.nan) = <<>>

\* ------------------------------------------------------------ programs
\* The detailed rows of one country, in file order.
CountryRows(all_rows, c) == SelectSeq(all_rows, LAMBDA r : r.country = c)

\* Sequences of at most n rows.
RowSeqs(n) == UNION {[1..k -> RowType] : k \in 0..n}

Init ==
    /\ pc = "start"
    /\ csv_files = NoData
    /\ country_files = {}
    /\ all_countries_data = NoData
    /\ issues_found = {}
    /\ region_data = NoData
    /\ unmapped_countries = {}
    /\ missing_countries = {}
    /\ warned_regions = {}
    /\ population_raster = NoRaster
    /\ transform = NoTransform
    /\ pharmacy_points = <<>>
    /\ pharmacy_raster = NoRaster
    /\ distance_raster = NoRaster
    /\ results = <<>>
    /\ final_results = NoData
    /\ tif_result = NoData
    /\ population_data = NoData
    /\ lookup = NoData
    /\ tif_files = NoData
    /\ current = NoData
    /\ road_mask = NoRaster
    /\ road_distance = NoRaster
    /\ all_detailed_results = NoData
    /\ appended = <<>>
    /\ printed = NoData
    /\ country_boundaries = NoData
    /\ all_results = <<>>
    /\ total_population_stats = NoData
    /\ classified = <<>>
    /\ src_data = NoRaster
    /\ out_bands = NoData
    /\ download = NoData

\* The files of ../data_original, which no program of the repository writes:
\* result_<country>_detailed.csv with the rows of a country and, beside them,
\* none or one such file with a header and no row.
EmptyFiles == {{}, {"Algeria"}}
DataOriginal ==
    UNION {{[c \in {all_rows[i].country : i \in 1..Len(all_rows)} \cup empty |->
                CountryRows(all_rows, c)] : empty \in EmptyFiles} :
           all_rows \in RowSeqs(MaxRows)}

\* all_countries_data[country_name] = country_data
\* (variant: a table that holds the last country only)
SetItemOnly(table, key, value) == [c \in {key} |-> value]
SetItem(table, key, value) ==
    [c \in DOMAIN table \cup {key} |-> IF c = key THEN value ELSE table[c]]

\* print(message) for a country: the log with that line added.
WithMessage(log, country, message) ==
    [c \in DOMAIN log \cup {country} |-> IF c = country THEN message ELSE log[c]]

\* road_distance_country.main: country_files = list(data_dir.glob(...))
MainStart ==
    /\ pc = "start"
    /\ csv_files' \in DataOriginal
    /\ country_files' = DOMAIN csv_files'
    /\ all_countries_data' = NoData
    /\ pc' = "road_distance_country"
    /\ UNCHANGED <<issues_found, region_data, unmapped_countries,
                   missing_countries, warned_regions>>
    /\ UNCHANGED <<pharmacyVars, toolVars>>

\* road_distance_country.main: one iteration of the loop over country_files
\* (glob yields the files in no particular order).
MainLoop ==
    /\ pc = "road_distance_country"
    /\ \E csv_file \in country_files :
          /\ country_files' = country_files \ {csv_file}
          /\ all_countries_data' =
                IF Raises(csv_files[csv_file])
                THEN all_countries_data
                ELSE SetItem(all_countries_data, csv_file,
                             process_country_data(csv_files[csv_file]))
          /\ printed' =
                IF Raises(csv_files[csv_file])
                THEN WithMessage(printed, csv_file, "Error processing")
                ELSE printed
    /\ UNCHANGED <<pc, csv_files, issues_found, region_data, unmapped_countries,
                   missing_countries, warned_regions>>
    /\ UNCHANGED <<pharmacyVars, tif_result, population_data, lookup, populationVars, utilityVars>>
    /\ UNCHANGED <<tif_files, current, road_mask, road_distance, all_detailed_results,
                   appended>>

\* road_distance_country.main: json.dump(all_countries_data, ...)
MainSave ==
    /\ pc = "road_distance_country"
    /\ country_files = {}
    /\ pc' = "road_distance_region"
    /\ UNCHANGED <<csv_files, country_files, all_countries_data, issues_found,
                   region_data, unmapped_countries, missing_countries, warned_regions>>
    /\ UNCHANGED <<pharmacyVars, toolVars>>

\* road_distance_region.aggregate_by_regions()
AggregateByRegions ==
    /\ pc = "road_distance_region"
    /\ unmapped_countries' = Unmapped(all_countries_data, regions_def)
    /\ missing_countries' = Missing(all_countries_data, regions_def)
    /\ warned_regions' = SkippedRegions(all_countries_data, regions_def)
    /\ region_data' = aggregate_by_regions(all_countries_data)
    /\ pc' = "done"
    /\ UNCHANGED <<csv_files, country_files, all_countries_data, issues_found>>
    /\ UNCHANGED <<pharmacyVars, toolVars>>

\* The country records a road_distance_country.json on disk may hold: the rows
\* of a country as road_distance_country writes them or, for a country whose
\* record carries the combined total only, as generate_json_data writes them.
CountryJsonRows ==
    {<<[country |-> "x", pop_density |-> 601, distance |-> 0],
       [country |-> "x", pop_density |-> 599, distance |-> 100]>>,
     <<[country |-> "x", pop_density |-> 599, distance |-> 50]>>}
CountryJsonFiles ==
    UNION {UNION {{[c \in found |->
                       IF c \in combined
                       THEN process_country_data_json(rows[c])
                       ELSE process_country_data(rows[c])] :
                     rows \in [found -> CountryJsonRows]} :
                  combined \in SUBSET found} :
           found \in SUBSET {"Morocco", "Algeria"}}

\* road_distance_region.aggregate_by_regions: data = json.load(f) of the
\* road_distance_country.json found on disk.
LoadCountryJson ==
    /\ pc = "start"
    /\ all_countries_data' \in CountryJsonFiles
    /\ pc' = "road_distance_region"
    /\ UNCHANGED <<csv_files, country_files, issues_found, region_data,
                   unmapped_countries, missing_countries, warned_regions>>
    /\ UNCHANGED <<pharmacyVars, toolVars>>

\* generate_json_data.main: country_files = list(data_dir.glob(...)) on ../data
\* as rural_aggregate left it.
JsonStart ==
    /\ pc \in {"csv_written", "save_failed"}
    /\ country_files' = DOMAIN csv_files
    /\ all_countries_data' = NoData
    /\ pc' = "generate_json_data"
    /\ UNCHANGED <<csv_files, issues_found, region_data, unmapped_countries,
                   missing_countries, warned_regions>>
    /\ UNCHANGED <<pharmacyVars, toolVars>>

\* generate_json_data.main: one iteration of the loop over country_files.
JsonLoop ==
    /\ pc = "generate_json_data"
    /\ \E csv_file \in country_files :
          /\ country_files' = country_files \ {csv_file}
          /\ all_countries_data' =
                IF Raises(csv_files[csv_file])
                THEN all_countries_data
                ELSE SetItem(all_countries_data, csv_file,
                             process_country_data_json(csv_files[csv_file]))
          /\ printed' =
                IF Raises(csv_files[csv_file])
                THEN WithMessage(printed, csv_file, "Error processing")
                ELSE printed
    /\ UNCHANGED <<pc, csv_files, issues_found, region_data, unmapped_countries,
                   missing_countries, warned_regions>>
    /\ UNCHANGED <<pharmacyVars, tif_result, population_data, lookup, populationVars, utilityVars>>
    /\ UNCHANGED <<tif_files, current, road_mask, road_distance, all_detailed_results,
                   appended>>

\* generate_json_data.main: json.dump(all_countries_data, ...)
JsonSave ==
    /\ pc = "generate_json_data"
    /\ country_files = {}
    /\ pc' = "verify_shares"
    /\ UNCHANGED <<csv_files, country_files, all_countries_data, issues_found,
                   region_data, unmapped_countries, missing_countries, warned_regions>>
    /\ UNCHANGED <<pharmacyVars, toolVars>>

\* verify_shares.verify_shares()
VerifyShares ==
    /\ pc = "verify_shares"
    /\ issues_found' = verify_shares(all_countries_data)
    /\ pc' = "done_verify"
    /\ UNCHANGED <<csv_files, country_files, all_countries_data, region_data,
                   unmapped_countries, missing_countries, warned_regions>>
    /\ UNCHANGED <<pharmacyVars, toolVars>>

\* The ../horizon/population_distance_analysis_fixed.json files, which no
\* program of the repository writes (generate_json_data writes the file of that
\* name in ../data): the records of generate_json_data for some rows.
PopulationJsonFiles ==
    {[c \in {all_rows[i].country : i \in 1..Len(all_rows)} |->
         process_country_data_json(CountryRows(all_rows, c))] :
       all_rows \in RowSeqs(MaxRows)}

\* region_aggregation.aggregate_by_regions: data = json.load(f)
LoadPopulationJson ==
    /\ pc = "start"
    /\ all_countries_data' \in PopulationJsonFiles
    /\ pc' = "region_aggregation"
    /\ UNCHANGED <<csv_files, country_files, issues_found, region_data,
                   unmapped_countries, missing_countries, warned_regions>>
    /\ UNCHANGED <<pharmacyVars, toolVars>>

\* region_aggregation.aggregate_by_regions(), after the load
RegionAggregation ==
    /\ pc = "region_aggregation"
    /\ unmapped_countries' = Unmapped(all_countries_data, regions_def_json)
    /\ missing_countries' = Missing(all_countries_data, regions_def_json)
    /\ warned_regions' = SkippedRegions(all_countries_data, regions_def_json)
    /\ region_data' = region_aggregation(all_countries_data)
    /\ pc' = "done_json"
    /\ UNCHANGED <<csv_files, country_files, all_countries_data, issues_found>>
    /\ UNCHANGED <<pharmacyVars, toolVars>>

\* ------------------------------------------------------------ facility programs
\* Raster values of the small grids: NaN, 0, -50.5 and 100.5 persons.
GridValues == {NaN, Num(0), Num(-101), Num(201)}

\* The 4x4 grid [[100,100,-50,-50],[100,100,-50,-50],[0,0,0,0],[0,0,0,0]].
ScenarioRaster ==
    Raster(4, 4, [cell \in Cells(4, 4) |->
        IF cell[1] >= 2 THEN Num(0)
        ELSE IF cell[2] < 2 THEN Num(100 * PopScale)
        ELSE Num(-50 * PopScale)])

\* Population rasters a run may load: every 1x3 grid, and the 4x4 grid.
RasterInputs ==
    {Raster(1, 3, data) : data \in [Cells(1, 3) -> GridValues]} \cup {ScenarioRaster}

\* The transform of 1 km cells, and one of cells 2 km wide and 1 km high.
UnitTransform == Affine(0, 0, CoordScale, CoordScale)
WideTransform == Affine(0, 0, 2 * CoordScale, CoordScale)

\* Population files a run may load: the rasters above with 1 km cells, and
\* the 1x3 grids without NaN and 0 with the wide cells.
TifInputs ==
    {[raster |-> r, transform |-> UnitTransform] : r \in RasterInputs}
    \cup {[raster |-> Raster(1, 3, data), transform |-> WideTransform] :
              data \in [Cells(1, 3) -> {Num(-101), Num(201)}]}

\* Features a file may hold: points in the centres of the 1 km cells
\* <<0, -1>> (outside every grid), <<0, 0>>, <<0, 1>> and <<0, 2>>, a line
\* from the centre of <<0, 0>> to that of <<0, 2>>, and a rectangle over the
\* cells <<0, 0>> to <<0, 2>>.
FeatureChoices ==
    {Feature("Point", <<<<x, -1>>>>) : x \in {-1, 1, 3, 5}}
    \cup {Feature("LineString", <<<<1, -1>>, <<5, -1>>>>),
          Feature("Polygon", <<<<0, 0>>, <<6, 0>>, <<6, -2>>, <<0, -2>>>>),
          Feature("Polygon", <<<<0, -1>>, <<2, -1>>, <<2, -2>>, <<0, -2>>>>),
          Feature("MultiPolygon", <<<<<<0, 0>>, <<2, 0>>, <<2, -2>>, <<0, -2>>>>,
                                    <<<<4, 0>>, <<6, 0>>, <<6, -6>>, <<4, -6>>>>>>),
          Feature("MultiLineString", <<<<<<1, -1>>, <<5, -1>>>>>>),
          Feature("MultiPoint", <<<<1, -1>>, <<5, -1>>, <<5, -3>>>>)}
FeatureInputs == UNION {[1..k -> FeatureChoices] : k \in 0..MaxFeatures}

\* run_analysis: self.load_population_data()
LoadPopulationData ==
    /\ pc = "start"
    /\ \E tif \in TifInputs :
          /\ population_raster' = tif.raster
          /\ transform' = tif.transform
    /\ pc' = "load_pharmacy_data"
    /\ UNCHANGED <<pharmacy_points, pharmacy_raster, distance_raster, results,
                   final_results>>
    /\ UNCHANGED <<roadVars, toolVars>>

\* run_analysis: self.load_pharmacy_data(); gdf.iloc[0] raises on a file
\* without features.
LoadPharmacyData ==
    /\ pc = "load_pharmacy_data"
    /\ \E points \in FeatureInputs :
          /\ pharmacy_points' = points
          /\ pc' = IF points = <<>> THEN "crashed" ELSE "create_pharmacy_raster"
    /\ UNCHANGED <<population_raster, transform, pharmacy_raster, distance_raster, results,
                   final_results>>
    /\ UNCHANGED <<roadVars, toolVars>>

\* run_analysis: self.create_pharmacy_raster()
CreatePharmacyRaster ==
    /\ pc = "create_pharmacy_raster"
    /\ pharmacy_raster' = create_pharmacy_raster(population_raster, transform, pharmacy_points)
    /\ pc' = "calculate_distances"
    /\ UNCHANGED <<population_raster, transform, pharmacy_points, distance_raster, results,
                   final_results>>
    /\ UNCHANGED <<roadVars, toolVars>>

\* run_analysis: self.calculate_distances()
CalculateDistances ==
    /\ pc = "calculate_distances"
    /\ distance_raster' = calculate_distances(pharmacy_raster)
    /\ pc' = "analyze_grid_level"
    /\ UNCHANGED <<population_raster, transform, pharmacy_points, pharmacy_raster, results,
                   final_results>>
    /\ UNCHANGED <<roadVars, toolVars>>

\* run_analysis: self.analyze_grid_level()
AnalyzeGridLevel ==
    /\ pc = "analyze_grid_level"
    /\ results' = analyze_grid_level(population_raster, distance_raster, pharmacy_raster)
    /\ pc' = "aggregate"
    /\ UNCHANGED <<population_raster, transform, pharmacy_points, pharmacy_raster,
                   distance_raster, final_results>>
    /\ UNCHANGED <<roadVars, toolVars>>

\* run_analysis: aggregate_by_distance(), analyze_urban_rural_gap() and the
\* final_results it returns.
CompileResults ==
    /\ pc = "aggregate"
    /\ final_results' =
          [distance_analysis |-> aggregate_by_distance(results),
           urban_rural_gap |-> analyze_urban_rural_gap(results),
           grid_level_data |-> results]
    /\ pc' = "detailed"
    /\ UNCHANGED <<population_raster, transform, pharmacy_points, pharmacy_raster,
                   distance_raster, results>>
    /\ UNCHANGED <<roadVars, toolVars>>

\* generate_detailed_analysis, after run_analysis: the detailed statistics are
\* added and the JSON is written; the summary then reads
\* results["urban_rural_gap"]["coverage_gap"], a KeyError on an empty gap.
GenerateDetailedAnalysis ==
    /\ pc = "detailed"
    /\ IF DetailedRaises(final_results.grid_level_data)
       THEN /\ pc' = "crashed"
            /\ UNCHANGED final_results
       ELSE /\ final_results' =
                  [distance_analysis |-> final_results.distance_analysis,
                   urban_rural_gap |-> final_results.urban_rural_gap,
                   grid_level_data |-> final_results.grid_level_data,
                   detailed_statistics |->
                       [population_statistics |->
                            population_stats(final_results.grid_level_data),
                        distance_category_distribution |->
                            distance_categories(final_results.grid_level_data)]]
            /\ pc' = IF final_results.urban_rural_gap = NoData
                     THEN "crashed" ELSE "done_detailed"
    /\ UNCHANGED <<population_raster, transform, pharmacy_points, pharmacy_raster,
                   distance_raster, results>>
    /\ UNCHANGED <<roadVars, toolVars>>

\* ------------------------------------------------------------ grid export
\* The no-data value of band 1 that process_aggregated_tif skips.
NoDataValue == -9999

\* process_aggregated_tif(tif_path, output_path): every cell of the file
\* whose band 1 is neither -9999 nor NaN, under its <<row, col>>, with
\* x, y = xy(transform, col, row) and the four band values.
process_aggregated_tif(tif) ==
    LET valid == {cell \in Cells(tif.height, tif.width) :
                     /\ tif.data[1][cell] # Num(NoDataValue)
                     /\ ~tif.data[1][cell].nan}
    IN  [metadata |-> [grid_size |-> <<tif.height, tif.width>>,
                       transform |-> tif.transform],
         grid_data |->
            [cell \in valid |->
                LET row == cell[1]
                    col == cell[2]
                    x == xy(tif.transform, col, row)[1]
                    y == xy(tif.transform, col, row)[2]
                IN  [geographic_location |->
                         [longitude |-> x, latitude |-> y, row |-> row, col |-> col],
                     rural_population |-> tif.data[1][cell],
                     rural_area |-> tif.data[2][cell],
                     urban_population |-> tif.data[3][cell],
                     urban_area |-> tif.data[4][cell]]]]

\* Aggregated files: grids of 1x2, 2x1 and 2x2 cells, square or 2 x 1 cells,
\* at two origins; band 1 is no-data, NaN or 10 in each cell, the other bands
\* are fixed.
TifShapes == {<<1, 2>>, <<2, 1>>, <<2, 2>>}
TifTransforms ==
    {Affine(x0, 0, sx, CoordScale) : x0 \in {0, 10}, sx \in {CoordScale, 2 * CoordScale}}
AggregatedTifs ==
    UNION {{[height |-> shape[1], width |-> shape[2], transform |-> t,
             data |-> <<band1,
                        [cell \in Cells(shape[1], shape[2]) |-> Num(1)],
                        [cell \in Cells(shape[1], shape[2]) |-> Num(300)],
                        [cell \in Cells(shape[1], shape[2]) |-> Num(1)]>>] :
              band1 \in [Cells(shape[1], shape[2]) -> {Num(NoDataValue), NaN, Num(10)}],
              t \in TifTransforms} : shape \in TifShapes}

\* process_aggregated_tif.py, run on one file.
ProcessAggregatedTif ==
    /\ pc = "start"
    /\ \E tif \in AggregatedTifs : tif_result' = process_aggregated_tif(tif)
    /\ pc' = "done_tif"
    /\ UNCHANGED <<roadVars, pharmacyVars, population_data, lookup, loopVars,
                   populationVars, utilityVars>>

\* ------------------------------------------------------------ facility lookup
\* Python int() of the quotient n / d, d > 0: truncation toward zero.
TruncDiv(n, d) == IF n >= 0 THEN n \div d ELSE -((-n) \div d)

\* What get_population_at_location returns: None, or the value of a cell.
None == [found |-> FALSE, value |-> Num(0)]
Some(value) == [found |-> TRUE, value |-> value]

\* get_population_at_location(lon, lat), on a loaded population file:
\* ~transform * (lon, lat) is the pair (x - x0) / sx, (y0 - y) / sy; the code
\* names the first row and the second col, and takes int() of both.
get_population_at_location(population, lon, lat) ==
    LET t == population.transform
        row == TruncDiv(lon - t.x0, t.sx)
        col == TruncDiv(t.y0 - lat, t.sy)
    IN  IF /\ 0 <= row /\ row < population.raster.height
           /\ 0 <= col /\ col < population.raster.width
        THEN Some(population.raster.data[<<row, col>>])
        ELSE None

\* Population files of the lookup: grids of 1x3, 3x1 and 2x2 cells whose
\* cells all differ, with 1 km cells or cells 2 km wide.
LookupFiles ==
    {[raster |-> Raster(shape[1], shape[2],
                    [cell \in Cells(shape[1], shape[2]) |->
                        Num((1 - 2 * (cell[2] % 2)) * (100 + 10 * cell[1] + cell[2]))]),
      transform |-> t] :
        shape \in {<<1, 3>>, <<3, 1>>, <<2, 2>>}, t \in {UnitTransform, WideTransform}}

\* Coordinates asked for: cell centres (for 1 km cells) from one cell left of
\* and above the corner of the raster to beyond its far edges.
LookupLons == {-3, -1, 1, 3, 5, 7}
LookupLats == {1, -1, -3, -5, -7}

\* FacilityUrbanRuralAnalyzer.load_population_data
LoadFacilityPopulation ==
    /\ pc = "start"
    /\ \E file \in LookupFiles : population_data' = file
    /\ pc' = "get_population_at_location"
    /\ UNCHANGED <<roadVars, pharmacyVars, tif_result, lookup, loopVars,
                   populationVars, utilityVars>>

\* get_population_at_location(lon, lat), as analyze_facility_distribution
\* calls it for a facility.
GetPopulationAtLocation ==
    /\ pc = "get_population_at_location"
    /\ \E lon \in LookupLons, lat \in LookupLats :
          lookup' = [lon |-> lon, lat |-> lat,
                     value |-> get_population_at_location(population_data, lon, lat)]
    /\ pc' = "done_lookup"
    /\ UNCHANGED <<roadVars, pharmacyVars, tif_result, population_data, loopVars,
                   populationVars, utilityVars>>

\* ------------------------------------------------------------ road distance
\* rural_aggregate.py, the pass over one country file.  Cell sizes and
\* distances are in units of the CRS of the raster (degrees); a distance is
\* held as its square.
\*
\* rasterize([(geom, 1) ...], out_shape, fill=0): 1 in every cell a road
\* burns.  A road is carried as the set of cells it burns.
rasterize(country_roads, height, width) ==
    Raster(height, width,
           [cell \in Cells(height, width) |->
               IF \E i \in 1..Len(country_roads) : cell \in country_roads[i]
               THEN 1 ELSE 0])

\* distance_transform_edt(mask == 0, sampling=sampling): for every cell the
\* distance to the nearest cell of value 1, rows spaced sampling[1] and
\* columns sampling[2] apart; squared.  Without a cell of value 1 the feature
\* transform gives the offsets (row + 1, col).
distance_transform_edt(mask, sampling) ==
    LET cells == Cells(mask.height, mask.width)
        marked == {cell \in cells : mask.data[cell] = 1}
        Squared(a, b) ==
            ((a[1] - b[1]) * sampling[1]) * ((a[1] - b[1]) * sampling[1])
            + ((a[2] - b[2]) * sampling[2]) * ((a[2] - b[2]) * sampling[2])
    IN  Raster(mask.height, mask.width,
               [cell \in cells |->
                   IF marked = {} THEN Squared(cell, <<-1, 0>>)
                   ELSE MinOf({Squared(cell, m) : m \in marked})])

\* res = pop_meta['transform'][0]; sampling=[res, res]
RoadSampling(t) == <<t.sx, t.sx>>

\* valid_mask = (~np.isnan(pop_data)) & (pop_data > 0): the valid cells, in
\* the order of the raster.
ValidCells(pop_data) ==
    SelectSeq(RowMajor(pop_data.height, pop_data.width),
              LAMBDA cell : Positive(pop_data.data[cell]))

\* valid_pop_df.mode()[0][0]: the smallest of the most frequent values.
most_common(values) ==
    LET Count(v) == Cardinality({i \in 1..Len(values) : values[i] = v})
        top == {v \in Range(values) : \A w \in Range(values) : Count(w) <= Count(v)}
    IN  MinOf(top)

\* 111.32 km per degree, in 1/100 km.
KmPerDegree == 11132

\* Steps 5 and 6: df_detailed of a country, the valid cells without those of
\* the most common value, with the distance in km (squared, in 1/100 km).
df_detailed(country, pop_data, distance) ==
    LET valid == ValidCells(pop_data)
        valid_pop == [i \in 1..Len(valid) |-> pop_data.data[valid[i]].v]
        kept == SelectSeq(valid, LAMBDA cell : pop_data.data[cell].v # most_common(valid_pop))
    IN  [i \in 1..Len(kept) |->
            [country |-> country,
             pop_density |-> pop_data.data[kept[i]].v,
             distance |-> KmPerDegree * KmPerDegree * distance.data[kept[i]]]]

\* Country files: one that cannot be opened, and rasters with their roads.
Unreadable == [readable |-> FALSE]
CountryTif(pop_data, t, country_roads) ==
    [readable |-> TRUE, pop_data |-> pop_data, transform |-> t,
     country_roads |-> country_roads]
Grid13(a, b, c) ==
    Raster(1, 3, [cell \in Cells(1, 3) |->
        IF cell[2] = 0 THEN a ELSE IF cell[2] = 1 THEN b ELSE c])
Grid22 ==
    Raster(2, 2, [cell \in Cells(2, 2) |-> Num(599 + 2 * cell[1] + cell[2])])
DegreeTransform == Affine(0, 0, 1, 1)
TallTransform == Affine(0, 0, 1, 2)
CountryTifs ==
    {Unreadable,
     CountryTif(Grid13(Num(599), Num(601), Num(601)), DegreeTransform, <<{<<0, 0>>}>>),
     CountryTif(Grid13(Num(599), Num(601), Num(601)), DegreeTransform, <<>>),
     CountryTif(Grid13(NaN, Num(0), Num(-5)), DegreeTransform, <<{<<0, 1>>}>>),
     CountryTif(Grid13(Num(601), NaN, Num(0)), DegreeTransform, <<{<<0, 2>>}>>),
     CountryTif(Grid22, DegreeTransform, <<{<<0, 0>>}, {<<0, 0>>, <<0, 1>>}>>),
     CountryTif(Grid22, TallTransform, <<{<<0, 0>>}>>)}

\* country_files = glob.glob(os.path.join(output_dir, "*.tif"))
RuralAggregateGlob ==
    /\ pc = "start"
    /\ \E found \in SUBSET {"Morocco", "Algeria"} :
          /\ found # {}
          /\ tif_files' \in [found -> CountryTifs]
    /\ pc' = "rural_aggregate"
    /\ UNCHANGED <<current, road_mask, road_distance, all_detailed_results, appended,
                   printed>>
    /\ UNCHANGED <<roadVars, pharmacyVars, tif_result, population_data, lookup,
                   populationVars, utilityVars>>

\* A pass message is printed for a country and the loop goes on.
Continue(country, message) ==
    /\ printed' = WithMessage(printed, country, message)
    /\ current' = NoData
    /\ road_mask' = NoRaster
    /\ road_distance' = NoRaster
    /\ pc' = "rural_aggregate"

\* for country_file in country_files: rasterio.open and the reads; an
\* exception is printed and the loop continues.
RuralAggregateLoad ==
    /\ pc = "rural_aggregate"
    /\ \E country \in DOMAIN tif_files :
          /\ tif_files' = [c \in DOMAIN tif_files \ {country} |-> tif_files[c]]
          /\ IF tif_files[country].readable
             THEN /\ current' = [country |-> country,
                                 pop_data |-> tif_files[country].pop_data,
                                 transform |-> tif_files[country].transform,
                                 country_roads |-> tif_files[country].country_roads]
                  /\ pc' = "rasterize"
                  /\ UNCHANGED <<road_mask, road_distance, printed>>
             ELSE Continue(country, "Error processing")
    /\ UNCHANGED <<all_detailed_results, appended>>
    /\ UNCHANGED <<roadVars, pharmacyVars, tif_result, population_data, lookup,
                   populationVars, utilityVars>>

\* "Skip if no roads in this country", else step 3: rasterize.
RuralAggregateRasterize ==
    /\ pc = "rasterize"
    /\ IF Len(current.country_roads) = 0
       THEN Continue(current.country, "No roads found")
       ELSE /\ road_mask' = rasterize(current.country_roads,
                                      current.pop_data.height, current.pop_data.width)
            /\ pc' = "distance_transform"
            /\ UNCHANGED <<current, road_distance, printed>>
    /\ UNCHANGED <<tif_files, all_detailed_results, appended>>
    /\ UNCHANGED <<roadVars, pharmacyVars, tif_result, population_data, lookup,
                   populationVars, utilityVars>>

\* Step 4: distance_transform_edt(road_mask == 0, sampling=[res, res])
RuralAggregateDistance ==
    /\ pc = "distance_transform"
    /\ road_distance' = distance_transform_edt(road_mask, RoadSampling(current.transform))
    /\ pc' = "filter"
    /\ UNCHANGED <<tif_files, current, road_mask, all_detailed_results, appended,
                   printed>>
    /\ UNCHANGED <<roadVars, pharmacyVars, tif_result, population_data, lookup,
                   populationVars, utilityVars>>

\* Steps 5 and 6: "Skip if no valid data", else the detailed rows of the
\* country are appended.
RuralAggregateFilter ==
    /\ pc = "filter"
    /\ IF ValidCells(current.pop_data) = <<>>
       THEN /\ Continue(current.country, "No valid population data")
            /\ UNCHANGED <<all_detailed_results, appended>>
       ELSE /\ all_detailed_results' =
                  [c \in DOMAIN all_detailed_results \cup {current.country} |->
                      IF c = current.country
                      THEN df_detailed(current.country, current.pop_data, road_distance)
                      ELSE all_detailed_results[c]]
            /\ appended' = Append(appended, current.country)
            /\ Continue(current.country, "Completed")
    /\ UNCHANGED tif_files
    /\ UNCHANGED <<roadVars, pharmacyVars, tif_result, population_data, lookup,
                   populationVars, utilityVars>>

\* The largest s with s * s <= x (x < 46300 * 46300).
ISqrt(x) ==
    LET h == CHOOSE k \in 0..462 : (100 * k) * (100 * k) <= x
                                    /\ x < (100 * (k + 1)) * (100 * (k + 1))
    IN  CHOOSE r \in (100 * h)..(100 * h + 99) : r * r <= x /\ x < (r + 1) * (r + 1)

\* to_csv of a detailed frame: the distance column in km (1/DScale km, the
\* digits beyond that cut off).
CsvRows(frame) ==
    [i \in 1..Len(frame) |->
        [country |-> frame[i].country,
         pop_density |-> frame[i].pop_density,
         distance |-> ISqrt(frame[i].distance)]]

RECURSIVE Concat(_, _)
\* pd.concat(all_detailed_results, ignore_index=True)
Concat(frames, order) ==
    IF order = <<>> THEN <<>>
    ELSE frames[Head(order)] \o Concat(frames, Tail(order))

\* Step 7, after the loop.  Nothing is written when no frame was appended.
\* Else result_all_countries_detailed.csv is written first; then
\* result['country'].iloc[0] raises IndexError at the first frame without
\* rows, before any result_<country>_detailed.csv is written.  The name
\* result_all_countries_detailed.csv matches the pattern
\* result_*_detailed.csv as well: it is the file of "all_countries".
RuralAggregateSave ==
    /\ pc = "rural_aggregate"
    /\ DOMAIN tif_files = {}
    /\ IF appended = <<>>
       THEN /\ csv_files' = NoData
            /\ pc' = "csv_written"
       ELSE LET df_detailed_all == CsvRows(Concat(all_detailed_results, appended))
            IN  IF \E c \in Range(appended) : all_detailed_results[c] = <<>>
                THEN /\ csv_files' = [c \in {"all_countries"} |-> df_detailed_all]
                     /\ pc' = "save_failed"
                ELSE /\ csv_files' =
                           [c \in Range(appended) \cup {"all_countries"} |->
                               IF c = "all_countries" THEN df_detailed_all
                               ELSE CsvRows(all_detailed_results[c])]
                     /\ pc' = "csv_written"
    /\ UNCHANGED <<country_files, all_countries_data, issues_found, region_data,
                   unmapped_countries, missing_countries, warned_regions>>
    /\ UNCHANGED <<pharmacyVars, toolVars>>

\* ------------------------------------------------------------ country population
\* country_population_analysis.py: CountryPopulationAnalyzer.run_analysis.

\* A <country>.gpkg of the boundaries directory: whether gpd.read_file reads it,
\* len(gdf), whether ghsl_polygon.intersects(country_geom), the area of the
\* geometry, and the cells mask(src, [country_geom], crop=True) returns.
Unloadable == [loadable |-> FALSE]
Boundary(rows, intersects, area_km2, masked_data) ==
    [loadable |-> TRUE, crs |-> TRUE, rows |-> rows, intersects |-> intersects,
     area_km2 |-> area_km2, mask_raises |-> FALSE, masked_data |-> masked_data]
\* A file without CRS (to_crs raises), and a boundary on which mask() raises.
NoCrs(gdf) == [gdf EXCEPT !.crs = FALSE]
MaskRaises(gdf) == [gdf EXCEPT !.mask_raises = TRUE]

\* valid_population = population_data[~np.isnan(population_data)]
valid_population(gdf) == SelectSeq(gdf.masked_data, LAMBDA x : ~x.nan)

\* The line analyze_country_population prints last for a country.
\* to_crs raising and the division overlap_area_km2 / country_area_km2 by an
\* area of 0 end in the outer except branch.
analyze_message(gdf) ==
    IF ~gdf.crs THEN "Error analyzing"
    ELSE IF gdf.rows = 0 THEN "No valid geometry"
    ELSE IF ~gdf.intersects THEN "No overlap with GHSL data"
    ELSE IF gdf.area_km2 = 0 THEN "Error analyzing"
    ELSE IF gdf.mask_raises THEN "Masking failed"
    ELSE IF valid_population(gdf) = <<>> THEN "No valid population data"
    ELSE "Analyzed"

\* The variant that records a country without overlap as zero coverage.
analyze_country_population_zero(country_name, gdf) ==
    IF analyze_message(gdf) \notin {"Analyzed", "No overlap with GHSL data"}
    THEN NoData
    ELSE LET valid == IF gdf.intersects THEN valid_population(gdf) ELSE <<>>
             urban_population == SelectSeq(valid, LAMBDA x : x.v > 0)
             rural_population == SelectSeq(valid, LAMBDA x : x.v < 0)
             urban_sum == SumSeq([i \in 1..Len(urban_population) |->
                                     urban_population[i].v])
             rural_sum == SumSeq([i \in 1..Len(rural_population) |->
                                     -rural_population[i].v])
         IN  [country |-> country_name,
              area_km2 |-> gdf.area_km2,
              total_cells |-> Len(valid),
              urban_cells |-> Len(urban_population),
              rural_cells |-> Len(rural_population),
              urban |-> urban_sum,
              rural |-> rural_sum,
              total |-> urban_sum + rural_sum]

\* analyze_country_population(country_name, country_gdf): None (the empty
\* dictionary here) for a country without geometry, without overlap, without
\* valid cells or with an exception, else its stats; the means, shares and density statistics are
\* quotients of the fields kept here.
analyze_country_population(country_name, gdf) ==
    IF analyze_message(gdf) # "Analyzed"
    THEN NoData
    ELSE LET valid == valid_population(gdf)
             urban_population == SelectSeq(valid, LAMBDA x : x.v > 0)
             rural_population == SelectSeq(valid, LAMBDA x : x.v < 0)
             urban_sum == SumSeq([i \in 1..Len(urban_population) |->
                                     urban_population[i].v])
             rural_sum == SumSeq([i \in 1..Len(rural_population) |->
                                     -rural_population[i].v])
         IN  [country |-> country_name,
              area_km2 |-> gdf.area_km2,
              total_cells |-> Len(valid),
              urban_cells |-> Len(urban_population),
              rural_cells |-> Len(rural_population),
              urban |-> urban_sum,
              rural |-> rural_sum,
              total |-> urban_sum + rural_sum]

\* calculate_total_population_stats(results): the sums over the results; the
\* densities, rates and coverage are quotients of these sums.
calculate_total_population_stats(stats_before, found) ==
    IF found = <<>>
    THEN stats_before
    ELSE [total_countries |-> Len(found),
          total_population |-> SumSeq([i \in 1..Len(found) |-> found[i].total]),
          total_urban_population |-> SumSeq([i \in 1..Len(found) |-> found[i].urban]),
          total_rural_population |-> SumSeq([i \in 1..Len(found) |-> found[i].rural]),
          total_area_km2 |-> SumSeq([i \in 1..Len(found) |-> found[i].area_km2])]

\* The boundary files of a run: unreadable, without geometry, outside the
\* raster, over nodata only, two with people, one with a geometry of area 0,
\* one on which mask() raises and one without CRS.
BoundaryFiles ==
    {Unloadable,
     Boundary(1, TRUE, 0, <<Num(201)>>),
     MaskRaises(Boundary(1, TRUE, 4, <<>>)),
     NoCrs(Boundary(1, TRUE, 4, <<Num(201)>>)),
     Boundary(0, FALSE, 0, <<>>),
     Boundary(1, FALSE, 4, <<>>),
     Boundary(1, TRUE, 4, <<NaN, NaN>>),
     Boundary(1, TRUE, 4, <<Num(201), Num(-101)>>),
     Boundary(1, TRUE, 6, <<Num(-101), NaN, Num(0)>>)}

\* run_analysis: load_ghsl_info(), countries = load_country_boundaries();
\* "No country boundaries loaded!" ends the run.
LoadCountryBoundaries ==
    /\ pc = "start"
    /\ \E found \in SUBSET {"Morocco", "Algeria"} :
       \E files \in [found -> BoundaryFiles] :
          LET loaded == {c \in found : files[c].loadable}
          IN  /\ country_boundaries' = [c \in loaded |-> files[c]]
              /\ printed' = [c \in found \ loaded |-> "Failed to load"]
              /\ pc' = IF loaded = {} THEN "done_population"
                       ELSE "country_population_analysis"
    /\ UNCHANGED <<all_results, total_population_stats>>
    /\ UNCHANGED <<roadVars, pharmacyVars, tif_result, population_data, lookup>>
    /\ UNCHANGED <<tif_files, current, road_mask, road_distance, all_detailed_results,
                   appended>>
    /\ UNCHANGED utilityVars

\* run_analysis: one iteration of the loop over countries.items(); a country
\* whose result is None is not appended.
AnalyzeCountryPopulation ==
    /\ pc = "country_population_analysis"
    /\ \E country_name \in DOMAIN country_boundaries \ DOMAIN printed :
          LET country_gdf == country_boundaries[country_name]
              result == analyze_country_population(country_name, country_gdf)
          IN  /\ all_results' = IF result # NoData THEN Append(all_results, result)
                                ELSE all_results
              /\ printed' = WithMessage(printed, country_name,
                                        analyze_message(country_gdf))
    /\ UNCHANGED <<pc, country_boundaries, total_population_stats>>
    /\ UNCHANGED <<roadVars, pharmacyVars, tif_result, population_data, lookup>>
    /\ UNCHANGED <<tif_files, current, road_mask, road_distance, all_detailed_results,
                   appended>>
    /\ UNCHANGED utilityVars

\* run_analysis: self.calculate_total_population_stats(all_results)
CalculateTotalPopulationStats ==
    /\ pc = "country_population_analysis"
    /\ DOMAIN country_boundaries \subseteq DOMAIN printed
    /\ total_population_stats' =
          calculate_total_population_stats(total_population_stats, all_results)
    /\ pc' = "done_population"
    /\ UNCHANGED <<country_boundaries, all_results>>
    /\ UNCHANGED <<roadVars, pharmacyVars, tif_result, population_data, lookup>>
    /\ UNCHANGED <<loopVars, utilityVars>>

\* ------------------------------------------------------------ distance bands
\* Squared distances a cell may have: 0, and both sides of every breakpoint of
\* classify_distance, up to 150 km.
DistanceInputs ==
    {0, 1, 2, 4, 5, 25, 26, 100, 101, 400, 401, 2500, 2501, 10000, 10001, 22500}

\* The records a run labels at once.
MaxClassified == 2

\* analyze_grid_level: "distance_category": self.classify_distance(distance)
\* for one more cell.
ClassifyDistance ==
    /\ pc \in {"start", "classify_distance"}
    /\ Len(classified) < MaxClassified
    /\ \E distance \in DistanceInputs :
          classified' = Append(classified,
                               [distance |-> distance,
                                distance_category |-> classify_distance(distance)])
    /\ pc' = "classify_distance"
    /\ UNCHANGED <<roadVars, pharmacyVars, tif_result, population_data, lookup,
                   loopVars, populationVars, src_data, out_bands, download>>

\* ------------------------------------------------------------ block aggregation
\* aggregate_100x100.py and aggregate_1000x1000.py, which differ in the factor
\* and the messages.  The factor (100 and 1000 in the scripts) is scaled to 2
\* here, with source grids of up to 3 cells a side.
factor == 2

\* The cells of the source that fall in the block <<i, j>>:
\* src_data[i*factor:(i+1)*factor, j*factor:(j+1)*factor]
Block(src, i, j) ==
    {cell \in Cells(src.height, src.width) :
        cell[1] \div factor = i /\ cell[2] \div factor = j}

\* The four bands: pop_lt300, area_lt300, pop_ge300, area_ge300, over
\* out_height x out_width blocks; a block without a valid cell keeps NaN and 0.
aggregate(src) ==
    LET out_height == src.height \div factor
        out_width == src.width \div factor
        Valid(i, j) == {cell \in Block(src, i, j) : ~src.data[cell].nan}
        lt(i, j) == {cell \in Valid(i, j) : src.data[cell].v < 300 * PopScale}
        ge(i, j) == {cell \in Valid(i, j) : src.data[cell].v >= 300 * PopScale}
        Sum(cells) == SumFun([cell \in cells |-> src.data[cell].v], cells)
        Band(value) ==
            Raster(out_height, out_width,
                   [cell \in Cells(out_height, out_width) |-> value[cell]])
    IN  [pop_lt300 |-> Band([cell \in Cells(out_height, out_width) |->
                          IF Valid(cell[1], cell[2]) = {} THEN NaN
                          ELSE Num(Sum(lt(cell[1], cell[2])))]),
         area_lt300 |-> Band([cell \in Cells(out_height, out_width) |->
                          Cardinality(lt(cell[1], cell[2]))]),
         pop_ge300 |-> Band([cell \in Cells(out_height, out_width) |->
                          IF Valid(cell[1], cell[2]) = {} THEN NaN
                          ELSE Num(Sum(ge(cell[1], cell[2])))]),
         area_ge300 |-> Band([cell \in Cells(out_height, out_width) |->
                          Cardinality(ge(cell[1], cell[2]))])]

\* Source rasters: no-data (NaN after "src_data[src_data == src_nodata] =
\* np.nan"), 299.5 and 300.5 persons, in grids of 2x2, 2x3 and 3x2 cells.
SourceShapes == {<<2, 2>>, <<2, 3>>, <<3, 2>>}
SourceGrids ==
    UNION {{Raster(shape[1], shape[2], data) :
               data \in [Cells(shape[1], shape[2]) -> {NaN, Num(599), Num(601)}]} :
           shape \in SourceShapes}

\* with rasterio.open(src_path) as src: src_data = src.read(1); nodata to NaN.
OpenSource ==
    /\ pc = "start"
    /\ src_data' \in SourceGrids
    /\ pc' = "aggregate_blocks"
    /\ UNCHANGED <<classified, out_bands, download>>
    /\ UNCHANGED <<roadVars, pharmacyVars, tif_result, population_data, lookup,
                   loopVars, populationVars>>

\* The block loop and dst.write of the four bands.
AggregateBlocks ==
    /\ pc = "aggregate_blocks"
    /\ out_bands' = aggregate(src_data)
    /\ pc' = "done_aggregate"
    /\ UNCHANGED <<classified, src_data, download>>
    /\ UNCHANGED <<roadVars, pharmacyVars, tif_result, population_data, lookup,
                   loopVars, populationVars>>

\* ------------------------------------------------------------ download
\* getdata_json.py: download_country_data(country, file_format).  The page
\* size (100 in the script) is scaled to 2; the features of a country are
\* numbered 1..n in the order of the server's pages.
page_size == 2

\* The most features the server holds for a country.
MaxServerFeatures == 5

\* data['features'] of an answered request for a page.
PageFeatures(n, page) ==
    [k \in 1..(IF n >= page * page_size THEN page_size
               ELSE IF n > (page - 1) * page_size THEN n - (page - 1) * page_size
               ELSE 0) |-> (page - 1) * page_size + k]

\* What a request can come to: an answer with status 200, an answer with
\* another status, or an exception of requests.get.
Outcomes == {"200", "500", "raises"}

FileFormats == {"geojson", "csv", "kml", "shapefile", "xlsx"}

\* The code after the while loop: the merged GeoJSON is saved when there is
\* any feature; every other format returns True.
AfterLoop(d) ==
    IF d.file_format = "geojson" /\ d.all_features # <<>>
    THEN [d EXCEPT !.looping = FALSE, !.saved = Some(d.all_features), !.returned = "True"]
    ELSE IF d.file_format = "geojson"
    THEN [d EXCEPT !.looping = FALSE, !.returned = "False"]
    ELSE [d EXCEPT !.looping = FALSE, !.returned = "True"]

\* One pass of "while True:" for the outcome of its request.
LoopPass(d, outcome) ==
    IF d.file_format = "shapefile" THEN AfterLoop(d)
    ELSE IF d.file_format \notin {"geojson", "csv", "kml"}
    THEN [d EXCEPT !.looping = FALSE, !.returned = "False"]
    ELSE IF outcome # "200" THEN AfterLoop(d)
    ELSE IF d.file_format # "geojson"
    THEN [d EXCEPT !.looping = FALSE,
                   !.saved = Some(PageFeatures(d.features, d.page)),
                   !.returned = "True"]
    ELSE LET features == PageFeatures(d.features, d.page)
             extended == [d EXCEPT !.all_features = d.all_features \o features]
         IN  IF features = <<>> THEN AfterLoop(d)
             ELSE IF Len(features) < page_size THEN AfterLoop(extended)
             ELSE [extended EXCEPT !.page = d.page + 1]

\* download_country_data(country, file_format) is called: all_features = [],
\* page = 1, for a country of which the server holds some number of features.
DownloadCountryData ==
    /\ pc = "start"
    /\ \E n \in 0..MaxServerFeatures, file_format \in FileFormats :
          download' = [features |-> n, file_format |-> file_format, page |-> 1,
                       all_features |-> <<>>, looping |-> TRUE,
                       saved |-> [found |-> FALSE, value |-> <<>>],
                       returned |-> "not yet"]
    /\ pc' = "download_country_data"
    /\ UNCHANGED <<classified, src_data, out_bands>>
    /\ UNCHANGED <<roadVars, pharmacyVars, tif_result, population_data, lookup,
                   loopVars, populationVars>>

\* One pass of the loop, the code after the loop included when the pass
\* breaks out of it.
DownloadPage ==
    /\ pc = "download_country_data"
    /\ download.looping
    /\ \E outcome \in Outcomes : download' = LoopPass(download, outcome)
    /\ UNCHANGED <<pc, classified, src_data, out_bands>>
    /\ UNCHANGED <<roadVars, pharmacyVars, tif_result, population_data, lookup,
                   loopVars, populationVars>>

\* get_failed_data.py: main() for one of the failed countries.  Each name
\* variant is tried with download_country_complete_data and, when that brings
\* no feature, with try_download_country_json; the first success is saved as
\* africa_geojson/<original_name>.geojson.  The number of name variants (5 to
\* 16 in the script) is scaled.
MaxVariants == 2

\* What a request of get_failed_data.py can come to: as above, or an answer
\* with status 200 that is not JSON.
FailedOutcomes == Outcomes \cup {"not json"}

\* The code after the loop of download_country_complete_data and the branch
\* of main() on its result: the features are saved, or the single-page
\* download is tried next.
AfterComplete(d) ==
    IF d.all_features # <<>>
    THEN [d EXCEPT !.mode = "done", !.saved = Some(d.all_features), !.success = TRUE]
    ELSE [d EXCEPT !.mode = "single"]

\* One pass of "while True:" of download_country_complete_data for the
\* outcome of its request.
download_country_complete_data(d, outcome) ==
    LET features == PageFeatures(d.features[d.variant], d.page)
        extended == [d EXCEPT !.all_features = d.all_features \o features]
    IN  IF outcome # "200" \/ features = <<>> THEN AfterComplete(d)
        ELSE IF Len(features) < page_size THEN AfterComplete(extended)
        ELSE [extended EXCEPT !.page = d.page + 1]

\* try_download_country_json and the branch of main() on its result: an
\* answered request is saved whatever the number of its features, a failed
\* one passes to the next name variant.
try_download_country_json(d, outcome) ==
    IF outcome = "200"
    THEN [d EXCEPT !.mode = "done",
                   !.saved = Some(PageFeatures(d.features[d.variant], 1)),
                   !.success = TRUE]
    ELSE IF d.variant < MaxVariants
    THEN [d EXCEPT !.variant = d.variant + 1, !.page = 1, !.all_features = <<>>,
                   !.mode = "complete"]
    ELSE [d EXCEPT !.mode = "done"]

\* main() of get_failed_data.py starts on a country: the server holds some
\* number of features under each name variant.
GetFailedData ==
    /\ pc = "start"
    /\ \E features \in [1..MaxVariants -> 0..MaxServerFeatures] :
          download' = [features |-> features, variant |-> 1, page |-> 1,
                       all_features |-> <<>>, mode |-> "complete",
                       saved |-> [found |-> FALSE, value |-> <<>>],
                       success |-> FALSE]
    /\ pc' = "get_failed_data"
    /\ UNCHANGED <<classified, src_data, out_bands>>
    /\ UNCHANGED <<roadVars, pharmacyVars, tif_result, population_data, lookup,
                   loopVars, populationVars>>

\* One page of the complete download of the current name variant.
CompletePage ==
    /\ pc = "get_failed_data"
    /\ download.mode = "complete"
    /\ \E outcome \in FailedOutcomes :
          download' = download_country_complete_data(download, outcome)
    /\ UNCHANGED <<pc, classified, src_data, out_bands>>
    /\ UNCHANGED <<roadVars, pharmacyVars, tif_result, population_data, lookup,
                   loopVars, populationVars>>

\* The single-page download of the current name variant.
SinglePage ==
    /\ pc = "get_failed_data"
    /\ download.mode = "single"
    /\ \E outcome \in FailedOutcomes :
          download' = try_download_country_json(download, outcome)
    /\ UNCHANGED <<pc, classified, src_data, out_bands>>
    /\ UNCHANGED <<roadVars, pharmacyVars, tif_result, population_data, lookup,
                   loopVars, populationVars>>

\* ------------------------------------------------------------ specification
\* A run is one of: the road pipeline (rural_aggregate, road_distance_country,
\* road_distance_region), the share pipeline (rural_aggregate,
\* generate_json_data, verify_shares, region_aggregation), or the facility
\* pipeline (run_analysis, generate_detailed_analysis).
Next ==
    \/ MainStart
    \/ MainLoop
    \/ MainSave
    \/ AggregateByRegions
    \/ LoadCountryJson
    \/ JsonStart
    \/ JsonLoop
    \/ JsonSave
    \/ VerifyShares
    \/ LoadPopulationJson
    \/ RegionAggregation
    \/ LoadPopulationData
    \/ LoadPharmacyData
    \/ CreatePharmacyRaster
    \/ CalculateDistances
    \/ AnalyzeGridLevel
    \/ CompileResults
    \/ GenerateDetailedAnalysis
    \/ ProcessAggregatedTif
    \/ LoadFacilityPopulation
    \/ GetPopulationAtLocation
    \/ RuralAggregateGlob
    \/ RuralAggregateLoad
    \/ RuralAggregateRasterize
    \/ RuralAggregateDistance
    \/ RuralAggregateFilter
    \/ RuralAggregateSave
    \/ LoadCountryBoundaries
    \/ AnalyzeCountryPopulation
    \/ CalculateTotalPopulationStats
    \/ ClassifyDistance
    \/ OpenSource
    \/ AggregateBlocks
    \/ DownloadCountryData
    \/ DownloadPage
    \/ GetFailedData
    \/ CompletePage
    \/ SinglePage

Spec == Init /\ [][Next]_vars

\* ------------------------------------------------------------ properties
\* Helpers of the properties below.
Countries == DOMAIN all_countries_data
Intervals(c) == all_countries_data[c].distance_intervals
\* The shares of a country's intervals, summed as decimals (1/ShareScale).
ShareSum(c) ==
    SumFun([k \in DOMAIN Intervals(c) |->
               Intervals(c)[k].urban_share_of_total_population
             + Intervals(c)[k].rural_share_of_total_population], DOMAIN Intervals(c))
IntervalSum(c, field) ==
    SumFun([k \in DOMAIN Intervals(c) |-> Intervals(c)[k][field]], DOMAIN Intervals(c))
RegionsDone == pc \in {"done", "done_json"}
\* The regions_def of the script that wrote region_data.
DefsUsed == IF pc = "done_json" THEN regions_def_json ELSE regions_def
\* The members of a region that are in the country data.
Members(region) == {c \in Range(DefsUsed[region]) : c \in Countries}
HasDetailed == final_results # NoData /\ "detailed_statistics" \in DOMAIN final_results
Categories == final_results.detailed_statistics.distance_category_distribution
MarkedCells ==
    {cell \in Cells(pharmacy_raster.height, pharmacy_raster.width) :
        pharmacy_raster.data[cell] = 1}
RecordAt(cell) ==
    {i \in 1..Len(results) : results[i].row = cell[1] /\ results[i].col = cell[2]}

\* C1: for every country the reported population equals the sum of
\* total_population_in_range over its reported distance intervals, and in the
\* facility pipeline the overall total equals the sum of the band populations.
C1_TotalEqualsBandSum ==
    /\ \A c \in Countries :
          all_countries_data[c].population = IntervalSum(c, "total_population_in_range")
    /\ HasDetailed =>
          LET bands == DOMAIN Categories
              overall == final_results.detailed_statistics.population_statistics.overall
          IN  /\ \A b \in bands : ~Categories[b].population.nan
              /\ SumFun([b \in bands |-> Categories[b].population.v], bands)
                    = overall * PopScale

\* C2: for every country the rounded urban and rural shares of all its
\* intervals sum to 1.0 within 0.001, and verify_shares reports no issue.
C2_SharesSumToOne ==
    /\ \A c \in Countries :
          Abs(ShareSum(c) - ShareScale) <= ShareTolerance
    /\ issues_found = {}

\* C3: the cumulative tables are non-decreasing in the threshold, for the
\* urban and the rural series: the region table over 1..100 km and
\* aggregate_by_distance over 1, 2, 5, 10, 20, 50, 100 km.
C3_CumulativeMonotone ==
    /\ \A region \in DOMAIN region_data :
          \A t \in 1..(MaxThreshold - 1) :
             /\ region_data[region].table[t].urban <= region_data[region].table[t + 1].urban
             /\ region_data[region].table[t].rural <= region_data[region].table[t + 1].rural
    /\ final_results # NoData =>
          \A i, j \in 1..Len(distance_thresholds) :
             i < j =>
                LET a == final_results.distance_analysis[distance_thresholds[i]]
                    b == final_results.distance_analysis[distance_thresholds[j]]
                IN  a.urban <= b.urban /\ a.rural <= b.rural

\* C3 witness: a region table that grows from the 1 km to the 2 km entry.
C3_Witness ==
    /\ pc = "done"
    /\ \E region \in DOMAIN region_data :
          /\ region_data[region].table[1].rural > 0
          /\ region_data[region].table[1].rural < region_data[region].table[2].rural

\* C4: in every region table, for every threshold 1..100, total_no_access
\* and (where reported) rural_no_access and urban_no_access are >= 0.
C4_NoAccessNonNegative ==
    \A region \in DOMAIN region_data :
       \A d \in 1..MaxThreshold :
          LET entry == region_data[region].table[d]
          IN  /\ entry.total_no_access >= 0
              /\ "rural_no_access" \in DOMAIN entry =>
                    entry.rural_no_access >= 0 /\ entry.urban_no_access >= 0

\* C4 witness: a region of two classes where people remain without access at
\* 1 km and none at 2 km.
C4_Witness ==
    /\ pc = "done"
    /\ \E region \in DOMAIN region_data :
          /\ region_data[region].table[1].rural_no_access > 0
          /\ region_data[region].table[1].urban > 0
          /\ region_data[region].table[2].total_no_access = 0

\* C5: every region written has total, urban and rural population equal to the
\* sum over the configured members present in the country data, and every
\* threshold entry equal to the sum over those members of their interval
\* values up to the threshold.
C5_RegionSumsMembers ==
    RegionsDone =>
       \A region \in DOMAIN region_data :
          LET of == region_data[region]
              Having(field) ==
                 {c \in Members(region) : field \in DOMAIN all_countries_data[c]}
              Total(field) ==
                 SumFun([c \in Having(field) |-> all_countries_data[c][field]],
                        Having(field))
              Reached(d, field) ==
                 SumFun([c \in Members(region) |->
                            SumFun([k \in {n \in DOMAIN Intervals(c) : n <= d} |->
                                       Intervals(c)[k][field]],
                                   {n \in DOMAIN Intervals(c) : n <= d})],
                        Members(region))
          IN  /\ Members(region) # {}
              /\ of.total_population = Total("population")
              /\ "urban_population" \in DOMAIN of =>
                    /\ of.urban_population = Total("urban_population")
                    /\ of.rural_population = Total("rural_population")
              /\ \A d \in 1..MaxThreshold :
                    /\ of.table[d].rural = Reached(d, "rural_population")
                    /\ of.table[d].urban = Reached(d, "urban_population")

\* C5 witness: a region rolled up from two members, beside a country that no
\* region lists... or a second member with people of its own.
C5_Witness ==
    /\ pc = "done"
    /\ "North Africa" \in DOMAIN region_data
    /\ Countries = {"Morocco", "Algeria"}
    /\ Countries \subseteq DOMAIN csv_files
    /\ region_data["North Africa"].total_population
          > all_countries_data["Morocco"].population
    /\ region_data["North Africa"].table[1].rural
          > all_countries_data["Algeria"].rural_population

\* C6: after a region rollup the printed unmapped list holds exactly the
\* countries of the data that no region lists, the printed missing list holds
\* exactly the region members that are not in the data, every country of the
\* data is rolled up or listed as unmapped, and every configured region is
\* written or warned about.
C6_AuditLists ==
    RegionsDone =>
       /\ unmapped_countries =
             {c \in Countries : \A region \in DOMAIN DefsUsed : c \notin Range(DefsUsed[region])}
       /\ \A region \in DOMAIN DefsUsed :
             \A c \in Range(DefsUsed[region]) :
                c \in missing_countries <=> c \notin Countries
       /\ \A c \in Countries :
             \/ c \in unmapped_countries
             \/ \E region \in DOMAIN region_data : c \in Members(region)
       /\ \A region \in DOMAIN DefsUsed :
             \/ region \in DOMAIN region_data
             \/ region \in warned_regions

\* C6 witness: a rollup with an unmapped country, an absent member and a
\* region without any member.
C6_Witness ==
    /\ pc = "done"
    /\ "Western Sahara" \in unmapped_countries
    /\ "Algeria" \in missing_countries
    /\ "North Africa" \in DOMAIN region_data
    /\ "West Africa" \in warned_regions

\* The run of the 4x4 scenario: that grid, one marked cell at <<0, 0>>.
Scenario ==
    /\ population_raster = ScenarioRaster
    /\ pharmacy_raster # NoRaster
    /\ MarkedCells = {<<0, 0>>}
    /\ final_results # NoData

\* C7: on the 4x4 scenario there are exactly 8 cell records, 4 urban of
\* population 100 and 4 rural of magnitude 50; the band "0-1km" holds exactly
\* the urban cells <<0,0>>, <<0,1>>, <<1,0>> at distances 0, 1, 1; the cell at
\* distance sqrt(2) is in "1-2km"; the 1 km threshold gives urban 300 of 400
\* (75%) and rural 0 of 200 (0%).
C7_Scenario ==
    Scenario =>
       LET recs == {results[i] : i \in 1..Len(results)}
           urban == {r \in recs : r.type = "urban"}
           rural == {r \in recs : r.type = "rural"}
           band == {r \in recs : r.distance_category = "0-1km"}
           gap == final_results.urban_rural_gap
       IN  /\ Len(results) = 8 /\ Cardinality(recs) = 8
           /\ Cardinality(urban) = 4 /\ Cardinality(rural) = 4
           /\ \A r \in urban : r.population = Num(100 * PopScale)
           /\ \A r \in rural : r.population = Num(50 * PopScale)
           /\ {<<r.row, r.col, r.distance>> : r \in band}
                 = {<<0, 0, 0>>, <<0, 1, 1>>, <<1, 0, 1>>}
           /\ band \subseteq urban
           /\ \E r \in urban : /\ r.row = 1 /\ r.col = 1 /\ r.distance = 2
                               /\ r.distance_category = "1-2km"
           /\ final_results.distance_analysis[1].urban = 300
           /\ final_results.distance_analysis[1].rural = 0
           /\ gap.population_totals.urban = 400
           /\ gap.population_totals.rural = 200
           /\ gap.coverage_gap.km1.urban_coverage.num
                 = 75 * gap.coverage_gap.km1.urban_coverage.den
           /\ gap.coverage_gap.km1.rural_coverage.num = 0

\* C7 witness: the scenario, analysed to its end.
C7_Witness == Scenario /\ pc = "done_detailed"

\* C8: every cell record's label agrees with the aggregates: a record is
\* labelled urban iff the urban sums count it (value > 0), labelled rural iff
\* the rural sums count it (value < 0), and a cell of value 0 has no record.
C8_LabelsAgree ==
    final_results # NoData =>
       /\ \A i \in 1..Len(results) :
             /\ results[i].type = "urban" <=> IsUrbanRecord(results[i])
             /\ results[i].type = "rural" <=> IsRuralRecord(results[i])
             /\ ~(IsUrbanRecord(results[i]) /\ IsRuralRecord(results[i]))
       /\ \A cell \in DOMAIN population_raster.data :
             population_raster.data[cell] = Num(0) => RecordAt(cell) = {}

\* C9: no cell record comes from a no-data (NaN) cell.
C9_NoDataExcluded ==
    /\ \A i \in 1..Len(results) : ~results[i].population_original.nan
    /\ \A cell \in DOMAIN population_raster.data :
          (pc \in {"aggregate", "detailed", "done_detailed"}
             /\ population_raster.data[cell].nan) => RecordAt(cell) = {}

\* C10: for every country urban_population + rural_population equals
\* population, and in every interval urban_population + rural_population
\* equals total_population_in_range.
C10_UrbanRuralPartition ==
    \A c \in Countries :
       /\ "urban_population" \in DOMAIN all_countries_data[c] =>
             all_countries_data[c].urban_population
                + all_countries_data[c].rural_population
                = all_countries_data[c].population
       /\ \A k \in DOMAIN Intervals(c) :
             Intervals(c)[k].urban_population + Intervals(c)[k].rural_population
                = Intervals(c)[k].total_population_in_range

\* The occupancy grid has been built.
Rasterized == pharmacy_raster # NoRaster
Reverse(s) == [i \in 1..Len(s) |-> s[Len(s) + 1 - i]]

\* C11: the occupancy grid holds only 0 and 1, has the shape of the population
\* grid, and is the grid of the same features taken once each in any order:
\* listing every feature twice, reversing the list, or listing each distinct
\* feature once gives the same grid.
C11_RasterizeIdempotent ==
    Rasterized =>
       /\ pharmacy_raster.height = population_raster.height
       /\ pharmacy_raster.width = population_raster.width
       /\ \A cell \in DOMAIN pharmacy_raster.data : pharmacy_raster.data[cell] \in {0, 1}
       /\ pharmacy_raster = create_pharmacy_raster(population_raster, transform,
                                pharmacy_points \o pharmacy_points)
       /\ pharmacy_raster = create_pharmacy_raster(population_raster, transform,
                                Reverse(pharmacy_points))
       /\ pharmacy_raster = create_pharmacy_raster(population_raster, transform,
                                SetToSeq(Range(pharmacy_points)))

\* C11 witness: a list with the same feature twice, rasterized to a single
\* occupied cell.
C11_Witness ==
    /\ pc = "calculate_distances"
    /\ Len(pharmacy_points) >= 2
    /\ \E i, j \in 1..Len(pharmacy_points) :
          i < j /\ pharmacy_points[i] = pharmacy_points[j]
    /\ Cardinality(MarkedCells) = 1

\* The coordinate taken for a feature lies inside the extent of the raster.
InExtent(point) ==
    LET p == IF FeatureRaises(point)
             THEN Rational(point.coords[1][1][1], point.coords[1][1][2], 1)
             ELSE FeaturePoint(point)
    IN  /\ transform.x0 * p.den <= p.x
        /\ p.x < (transform.x0 + population_raster.width * transform.sx) * p.den
        /\ p.y <= transform.y0 * p.den
        /\ p.y > (transform.y0 - population_raster.height * transform.sy) * p.den

\* C12: features outside the extent mark no cell and do not stop the run: the
\* occupancy grid is the grid of the features inside the extent alone, and
\* only the cells of such features are marked.
C12_OutOfExtentIgnored ==
    /\ Rasterized =>
          /\ pharmacy_raster = create_pharmacy_raster(population_raster, transform,
                                   SelectSeq(pharmacy_points, InExtent))
          /\ \A cell \in MarkedCells :
                \E i \in 1..Len(pharmacy_points) :
                   /\ InExtent(pharmacy_points[i])
                   /\ ~FeatureRaises(pharmacy_points[i])
                   /\ FeatureCell(transform, pharmacy_points[i]) = cell
    /\ (pc = "calculate_distances" /\ pharmacy_points # <<>>) => Rasterized

\* C12 witness: a run with a feature outside the extent and one inside it,
\* past the rasterization, with the one cell marked.
C12_Witness ==
    /\ pc = "analyze_grid_level"
    /\ \E i, j \in 1..Len(pharmacy_points) :
          ~InExtent(pharmacy_points[i]) /\ InExtent(pharmacy_points[j])
    /\ Cardinality(MarkedCells) = 1

\* The parts of a feature, each as its list of vertices.
Parts(point) ==
    IF point.geom_type \in {"MultiPolygon", "MultiLineString"} THEN Range(point.coords)
    ELSE IF point.geom_type = "MultiPoint" THEN {<<v>> : v \in Range(point.coords)}
    ELSE {point.coords}

\* The cells of the grid that a feature intersects: the cell holding a point,
\* the cells a line along an axis passes through, the cells a rectangle covers.
IntersectedCells(point) ==
    LET U(part) == {part[i][1] - transform.x0 : i \in 1..Len(part)}
        V(part) == {transform.y0 - part[i][2] : i \in 1..Len(part)}
        Overlaps(lo, hi, cell_lo, cell_hi) ==
            IF lo = hi THEN cell_lo <= lo /\ lo < cell_hi
            ELSE lo < cell_hi /\ cell_lo < hi
    IN  {cell \in Cells(population_raster.height, population_raster.width) :
            \E part \in Parts(point) :
               /\ Overlaps(MinOf(V(part)), MaxOf(V(part)),
                           cell[1] * transform.sy, (cell[1] + 1) * transform.sy)
               /\ Overlaps(MinOf(U(part)), MaxOf(U(part)),
                           cell[2] * transform.sx, (cell[2] + 1) * transform.sx)}

\* C13: the occupied cells are exactly the cells that the features intersect:
\* the cell containing a point, every cell a line passes through and every
\* cell a polygon covers.
C13_MarksIntersectedCells ==
    Rasterized =>
       MarkedCells = UNION {IntersectedCells(pharmacy_points[i]) :
                               i \in 1..Len(pharmacy_points)}

\* C14: every cell written under grid_<row>_<col> carries the centre of that
\* cell under the transform of the file, so that the cell of the reported
\* (longitude, latitude) is <<row, col>> again.
C14_CellCentreRoundTrip ==
    tif_result # NoData =>
       \A cell \in DOMAIN tif_result.grid_data :
          LET at == tif_result.grid_data[cell].geographic_location
              t == tif_result.metadata.transform
          IN  /\ <<at.row, at.col>> = cell
              /\ 2 * (at.longitude - t.x0) = (2 * at.col + 1) * t.sx
              /\ 2 * (t.y0 - at.latitude) = (2 * at.row + 1) * t.sy
              /\ rowcol(t, at.longitude, at.latitude) = <<at.row, at.col>>

\* C15: get_population_at_location(x, y) returns the value of the cell whose
\* extent contains <<x, y>>, the cell that rowcol resolves for create_pharmacy_raster,
\* and None exactly when <<x, y>> is outside the extent of the grid.
C15_LookupResolvesCell ==
    lookup # NoData =>
       LET t == population_data.transform
           grid == population_data.raster
           cell == rowcol(t, lookup.lon, lookup.lat)
           inside == /\ t.x0 <= lookup.lon
                     /\ lookup.lon < t.x0 + grid.width * t.sx
                     /\ lookup.lat <= t.y0
                     /\ lookup.lat > t.y0 - grid.height * t.sy
       IN  /\ lookup.value.found <=> inside
           /\ inside => lookup.value = Some(grid.data[cell])

\* The squared centre-to-centre distance of two cells under a transform, in
\* the squared unit of the transform.
GroundDistance(t, a, b) ==
    ((a[1] - b[1]) * t.sy) * ((a[1] - b[1]) * t.sy)
    + ((a[2] - b[2]) * t.sx) * ((a[2] - b[2]) * t.sx)
RoadCells ==
    {cell \in Cells(road_mask.height, road_mask.width) : road_mask.data[cell] = 1}

\* C16: the distance of every cell record is the least centre-to-centre
\* distance in km to an occupied cell, 0 iff the cell itself is occupied and
\* positive otherwise; so is every distance that rural_aggregate computes to
\* the cells of the roads.
C16_DistanceIsMinimum ==
    /\ \A i \in 1..Len(results) :
          LET cell == <<results[i].row, results[i].col>>
          IN  /\ MarkedCells # {}
              /\ CoordScale * CoordScale * results[i].distance
                    = MinOf({GroundDistance(transform, cell, m) : m \in MarkedCells})
              /\ results[i].distance = 0 <=> cell \in MarkedCells
              /\ results[i].distance >= 0
    /\ road_distance # NoRaster =>
          \A cell \in DOMAIN road_distance.data :
             /\ road_distance.data[cell]
                   = MinOf({GroundDistance(current.transform, cell, m) : m \in RoadCells})
             /\ road_distance.data[cell] = 0 <=> cell \in RoadCells

\* C17: when the cell sizes along x and y differ, row offsets are scaled by
\* the y size and column offsets by the x size in every distance computed.
C17_AnisotropicScaling ==
    /\ (current # NoData /\ road_distance # NoRaster
          /\ current.transform.sx # current.transform.sy) =>
          road_distance = distance_transform_edt(road_mask,
                              <<current.transform.sy, current.transform.sx>>)
    /\ (distance_raster # NoRaster /\ MarkedCells # {} /\ transform.sx # transform.sy) =>
          \A cell \in DOMAIN distance_raster.data :
             CoordScale * CoordScale * distance_raster.data[cell]
                = distance_transform_edt(pharmacy_raster,
                      <<transform.sy, transform.sx>>).data[cell]

\* C18: a scope whose occupancy grid has no occupied cell gets no distance
\* field, no cell record and no aggregate, and is flagged: the facility run
\* stops with an error, and rural_aggregate prints that the country is
\* skipped and keeps no rows for it.
C18_EmptyGridFails ==
    /\ (Rasterized /\ MarkedCells = {}) =>
          /\ distance_raster = NoRaster
          /\ results = <<>>
          /\ final_results = NoData
          /\ pc \in {"calculate_distances", "crashed"}
    /\ \A country \in DOMAIN printed :
          printed[country] = "No roads found" => country \notin DOMAIN all_detailed_results
    /\ road_distance # NoRaster => RoadCells # {}

\* The steps of a facility run, in order, and the step a state is at.
StepOrder ==
    <<"load_pharmacy_data", "create_pharmacy_raster", "calculate_distances",
      "analyze_grid_level", "aggregate", "detailed", "done_detailed">>
AtStep(k) == pc = StepOrder[k]

\* C19: the steps of a run occur in the order Load, Rasterize, Distance,
\* Classify, Aggregate, Emit: a step's output exists only when the outputs of
\* the steps before it are complete, the distance step reads the complete
\* occupancy grid, classification the complete distance field, and no
\* aggregate is computed from an empty or partly built set of cell records;
\* likewise in each pass of rural_aggregate.
C19_StepsInOrder ==
    /\ (AtStep(1) \/ AtStep(2)) => pharmacy_raster = NoRaster
    /\ (AtStep(1) \/ AtStep(2) \/ AtStep(3)) => distance_raster = NoRaster
    /\ (AtStep(1) \/ AtStep(2) \/ AtStep(3) \/ AtStep(4)) => results = <<>>
    /\ (AtStep(1) \/ AtStep(2) \/ AtStep(3) \/ AtStep(4) \/ AtStep(5)) =>
          final_results = NoData
    /\ Rasterized =>
          pharmacy_raster = create_pharmacy_raster(population_raster, transform,
                                                   pharmacy_points)
    /\ distance_raster # NoRaster =>
          Rasterized /\ distance_raster = calculate_distances(pharmacy_raster)
    /\ (AtStep(5) \/ AtStep(6) \/ AtStep(7)) =>
          results = analyze_grid_level(population_raster, distance_raster,
                                       pharmacy_raster)
    /\ final_results # NoData =>
          /\ final_results.grid_level_data = results
          /\ final_results.distance_analysis = aggregate_by_distance(results)
          /\ results # <<>>
    /\ pc = "rasterize" => road_mask = NoRaster /\ road_distance = NoRaster
    /\ pc = "distance_transform" =>
          /\ road_mask = rasterize(current.country_roads, current.pop_data.height,
                                   current.pop_data.width)
          /\ road_distance = NoRaster
    /\ pc = "filter" =>
          road_distance = distance_transform_edt(road_mask,
                              RoadSampling(current.transform))
    /\ \A country \in DOMAIN all_detailed_results :
          all_detailed_results[country] # <<>>

\* A detailed CSV that process_country_data cannot read, and a boundary whose
\* country cannot be analysed.
FailedFile(rows) == rows = <<>>
FailedBoundary(gdf) ==
    \/ ~gdf.crs
    \/ gdf.rows = 0
    \/ ~gdf.intersects
    \/ gdf.area_km2 = 0
    \/ gdf.mask_raises
    \/ \A i \in 1..Len(gdf.masked_data) : gdf.masked_data[i].nan
FailureLines ==
    {"No valid geometry", "No overlap with GHSL data", "No valid population data",
     "Error analyzing", "Masking failed"}
ResultsOf(country) == {i \in 1..Len(all_results) : all_results[i].country = country}

\* C20: when a country fails in road_distance_country.main or in
\* CountryPopulationAnalyzer.run_analysis, every other country visited is in the
\* output with the result its own input gives, the failed country is in
\* neither the output nor the region rollup or totals, and a line naming the
\* failed country has been printed.
C20_FailureIsolated ==
    /\ pc \in {"road_distance_country", "road_distance_region", "done"} =>
          \A c \in DOMAIN csv_files \ country_files :
             IF FailedFile(csv_files[c])
             THEN /\ c \notin DOMAIN all_countries_data
                  /\ c \in DOMAIN printed
                  /\ printed[c] = "Error processing"
             ELSE /\ c \in DOMAIN all_countries_data
                  /\ all_countries_data[c] = process_country_data(csv_files[c])
                  /\ c \notin DOMAIN printed
    /\ (pc = "done" /\ DOMAIN all_countries_data \subseteq DOMAIN csv_files) =>
          \A region \in DOMAIN regions_def :
             LET ok == {c \in Range(regions_def[region]) \cap DOMAIN csv_files :
                           ~FailedFile(csv_files[c])}
             IN  IF ok = {}
                 THEN region \notin DOMAIN region_data
                 ELSE /\ region \in DOMAIN region_data
                      /\ region_data[region].total_population =
                            SumFun([c \in ok |->
                                      process_country_data(csv_files[c]).population], ok)
    /\ pc \in {"country_population_analysis", "done_population"} =>
          /\ \A c \in DOMAIN printed \ DOMAIN country_boundaries :
                printed[c] = "Failed to load" /\ ResultsOf(c) = {}
          /\ \A c \in DOMAIN country_boundaries \cap DOMAIN printed :
                IF FailedBoundary(country_boundaries[c])
                THEN ResultsOf(c) = {} /\ printed[c] \in FailureLines
                ELSE /\ Cardinality(ResultsOf(c)) = 1
                     /\ \A i \in ResultsOf(c) :
                           all_results[i] =
                              analyze_country_population(c, country_boundaries[c])
                     /\ printed[c] = "Analyzed"
    /\ pc = "done_population" =>
          LET ok == {c \in DOMAIN country_boundaries :
                        ~FailedBoundary(country_boundaries[c])}
          IN  IF ok = {}
              THEN total_population_stats = NoData
              ELSE /\ total_population_stats.total_countries = Cardinality(ok)
                   /\ total_population_stats.total_population =
                         SumFun([c \in ok |->
                                   analyze_country_population(c, country_boundaries[c]).total],
                                ok)

\* C20 witness: a finished run_analysis in which one country had no overlap
\* with the raster and the other country alone makes up the totals.
C20_Witness ==
    /\ pc = "done_population"
    /\ \E c \in DOMAIN printed : printed[c] = "No overlap with GHSL data"
    /\ Len(all_results) = 1
    /\ total_population_stats # NoData
    /\ total_population_stats.total_countries = 1
    /\ total_population_stats.total_population > 0

\* The members of a region whose record carries both class totals.
ClassTotalsKnown(region) ==
    \A c \in Members(region) :
       {"urban_population", "rural_population"} \subseteq DOMAIN all_countries_data[c]

\* C21: a region entry carries rural_no_access and urban_no_access exactly
\* when every member country's record has both class totals; with a member
\* that has the combined total only, the entry has neither field.
C21_SplitOnlyWhenKnown ==
    RegionsDone =>
       \A region \in DOMAIN region_data :
          \A d \in 1..MaxThreshold :
             LET entry == region_data[region].table[d]
             IN  /\ "rural_no_access" \in DOMAIN entry <=> ClassTotalsKnown(region)
                 /\ "urban_no_access" \in DOMAIN entry <=> ClassTotalsKnown(region)

\* The cells of a raster whose value is a number other than zero.
Populated(pop_data) ==
    {cell \in Cells(pop_data.height, pop_data.width) :
        ~pop_data.data[cell].nan /\ pop_data.data[cell].v # 0}

\* The step that builds the cell records keeps every populated valid cell.
KeepsPopulatedCells ==
    /\ pc = "filter" /\ Populated(current.pop_data) # {} =>
          /\ current.country \in DOMAIN all_detailed_results'
          /\ LET rows == all_detailed_results'[current.country]
                 cells == Populated(current.pop_data)
             IN  /\ Len(rows) = Cardinality(cells)
                 /\ SumSeq([i \in 1..Len(rows) |-> rows[i].pop_density]) =
                       SumFun([cell \in cells |-> current.pop_data.data[cell].v], cells)
    /\ pc = "analyze_grid_level" =>
          \A cell \in Populated(population_raster) :
             Cardinality({i \in 1..Len(results') :
                             results'[i].row = cell[1] /\ results'[i].col = cell[2]}) = 1

\* C22: a cell record is produced for every grid cell whose population is
\* non-zero and not no-data, none is dropped for holding the most frequent
\* value, and the records of a scope sum to the sum over those cells.
C22_NoPopulatedCellDropped == [][KeepsPopulatedCells]_vars

\* The bands in ascending order and the breakpoints between them.
BandLabels ==
    <<"0-1km", "1-2km", "2-5km", "5-10km", "10-20km", "20-50km", "50-100km", ">100km">>
BandIndex(label) == CHOOSE k \in 1..Len(BandLabels) : BandLabels[k] = label
Breakpoints == <<1, 2, 5, 10, 20, 50, 100>>

\* The squared distance lies in the band k: above the breakpoint below it and
\* at most the breakpoint that ends it; the last band has no end.
InBand(distance, k) ==
    /\ k > 1 => distance > Breakpoints[k - 1] * Breakpoints[k - 1]
    /\ k <= Len(Breakpoints) => distance <= Breakpoints[k] * Breakpoints[k]

\* C23: classify_distance gives every non-negative distance exactly one of the
\* eight bands, the one whose half-open interval between the breakpoints 1, 2,
\* 5, 10, 20, 50, 100 holds the distance; the band index is non-decreasing in
\* the distance and a distance above 100 km is in the last, unbounded band.
C23_BandsPartition ==
    \A i \in 1..Len(classified) :
       LET r == classified[i]
       IN  /\ \E k \in 1..Len(BandLabels) : r.distance_category = BandLabels[k]
           /\ \A k \in 1..Len(BandLabels) :
                 InBand(r.distance, k) <=> r.distance_category = BandLabels[k]
           /\ r.distance > 100 * 100 => r.distance_category = ">100km"
           /\ \A j \in 1..Len(classified) :
                 classified[j].distance <= r.distance =>
                    BandIndex(classified[j].distance_category)
                       <= BandIndex(r.distance_category)

\* C23 witness: a cell exactly 1 km away labelled "0-1km" beside a cell 150 km
\* away labelled ">100km".
C23_Witness ==
    /\ pc = "classify_distance"
    /\ Len(classified) = 2
    /\ classified[1] = [distance |-> 1, distance_category |-> "0-1km"]
    /\ classified[2] = [distance |-> 22500, distance_category |-> ">100km"]

\* C24: every scope result emitted for an input with a populated cell holds
\* the total, urban and rural population and the cumulative-threshold table,
\* also when all populated cells are urban or all are rural, and emitting and
\* summarizing it does not fail.
C24_ResultComplete ==
    /\ \A c \in Countries \cap DOMAIN csv_files :
          {"population", "urban_population", "rural_population", "distance_intervals"}
             \subseteq DOMAIN all_countries_data[c]
    /\ (final_results # NoData /\ Populated(population_raster) # {}) =>
          /\ DOMAIN final_results.distance_analysis = Range(distance_thresholds)
          /\ final_results.urban_rural_gap # NoData
          /\ {"urban", "rural", "total"}
                \subseteq DOMAIN final_results.urban_rural_gap.population_totals
          /\ pc # "crashed"

\* The country table that the files of a directory give, whatever the order
\* in which they are read.
TableOf(files) ==
    [c \in {f \in DOMAIN files : ~FailedFile(files[f])} |->
        process_country_data(files[c])]

\* C25: in road_distance_country every country's result is the one its own
\* file gives, whichever countries were read before it; once all files are
\* read the table is the same for every order of reading, and so is the region
\* rollup made from it.
C25_OrderIndependent ==
    /\ pc = "road_distance_country" =>
          \A c \in Countries : all_countries_data[c] = process_country_data(csv_files[c])
    /\ (pc = "road_distance_country" /\ country_files = {}) =>
          all_countries_data = TableOf(csv_files)
    /\ (pc = "done" /\ Countries \subseteq DOMAIN csv_files) =>
          /\ all_countries_data = TableOf(csv_files)
          /\ region_data = aggregate_by_regions(TableOf(csv_files))

\* C25 witness: a rollup of two countries with different results, whose files
\* were read in either order.
C25_Witness ==
    /\ pc = "done"
    /\ {"Morocco", "Algeria"} \subseteq DOMAIN csv_files
    /\ {"Morocco", "Algeria"} \subseteq Countries
    /\ all_countries_data["Morocco"] # all_countries_data["Algeria"]
    /\ "North Africa" \in DOMAIN region_data

\* The population (1/PopScale persons) of the cells of a region's members that
\* lie within d km, from the rows of their files.
WithinKm(region, d) ==
    SumFun([c \in Members(region) |->
               SumSeq(PopColumn(SelectSeq(csv_files[c],
                                          LAMBDA r : r.distance <= d * DScale)))],
           Members(region))

\* C26: the region entry "<=d km population" counts a member-country cell iff
\* its distance is <= d km, a cell at exactly d km included: the entry's
\* total_with_access is the population of those cells, up to the truncation of
\* each interval's urban and rural sum to an integer.
C26_ThresholdInclusive ==
    (pc = "done" /\ Countries \subseteq DOMAIN csv_files) =>
       \A region \in DOMAIN region_data :
          \A d \in 1..MaxThreshold :
             LET entry == region_data[region].table[d]
                 exact == WithinKm(region, d)
                 lost == 2 * PopScale * d * Cardinality(Members(region))
             IN  /\ entry.total_with_access * PopScale <= exact
                 /\ entry.total_with_access * PopScale > exact - lost

\* The bands of the band table whose upper breakpoint is at most t km.
BandsUpTo(t) ==
    {b \in DOMAIN Categories :
        /\ BandIndex(b) <= Len(Breakpoints)
        /\ Breakpoints[BandIndex(b)] <= t}

\* C27: in the facility pipeline, for every threshold t of 1, 2, 5, 10, 20, 50,
\* 100 the cumulative total at t equals the sum of the band populations of the
\* bands whose upper breakpoint is <= t.
C27_BandsMatchThresholds ==
    HasDetailed =>
       \A t \in Range(distance_thresholds) :
          /\ \A b \in BandsUpTo(t) : ~Categories[b].population.nan
          /\ final_results.distance_analysis[t].total * PopScale =
                SumFun([b \in BandsUpTo(t) |-> Categories[b].population.v],
                       BandsUpTo(t))

\* C28: in every region entry of road_distance_region, made from country data
\* that road_distance_country produced, rural + urban = total_with_access and
\* rural_no_access + urban_no_access = total_no_access.
C28_ResidualsReconcile ==
    (pc = "done" /\ Countries \subseteq DOMAIN csv_files) =>
       \A region \in DOMAIN region_data :
          \A d \in 1..MaxThreshold :
             LET entry == region_data[region].table[d]
             IN  /\ entry.rural + entry.urban = entry.total_with_access
                 /\ entry.rural_no_access + entry.urban_no_access
                       = entry.total_no_access

\* The valid cells of the source raster, and the sum of a written band over
\* the blocks that hold a number.
ValidSource == {cell \in Cells(src_data.height, src_data.width) : ~src_data.data[cell].nan}
BandSum(band) ==
    LET cells == {cell \in Cells(band.height, band.width) : ~band.data[cell].nan}
    IN  SumFun([cell \in cells |-> band.data[cell].v], cells)
AreaSum(band) ==
    SumFun([cell \in Cells(band.height, band.width) |-> band.data[cell]],
           Cells(band.height, band.width))

\* C29: block aggregation conserves population and cell counts: the sum over
\* the blocks of pop_lt300 + pop_ge300 is the sum of the valid source cells
\* and the sum of area_lt300 + area_ge300 is their number, also when the
\* source dimensions are not multiples of the factor.
C29_BlocksConserve ==
    pc = "done_aggregate" =>
       /\ BandSum(out_bands.pop_lt300) + BandSum(out_bands.pop_ge300) =
             SumFun([cell \in ValidSource |-> src_data.data[cell].v], ValidSource)
       /\ AreaSum(out_bands.area_lt300) + AreaSum(out_bands.area_ge300) =
             Cardinality(ValidSource)

\* All features of a country, in page order and without duplicates.
CompleteData(n) == [k \in 1..n |-> k]

\* C30: download_country_data makes no more requests than the country has
\* pages, and returns True only when a file with the country's complete data
\* has been written: after a failed request, or for a format for which
\* nothing is downloaded, it does not return True.
C30_DownloadComplete ==
    pc = "download_country_data" =>
       /\ download.page <= download.features \div page_size + 1
       /\ download.returned = "True" =>
             /\ download.saved.found
             /\ download.saved.value = CompleteData(download.features)

=============================================================================
